---- MODULE Spec2Model ----
(***************************************************************************)
(* Trusted PayGram: the payroll engine (PayGramCore), the trust registry   *)
(* (TrustScoring) and the confidential ledger (PayGramToken) as one state  *)
(* machine.  Every external call is one atomic action (transaction); a     *)
(* reverting call leaves the contracts' state unchanged and is recorded in *)
(* lastCall with the name of its error.  A ciphertext is represented by    *)
(* the plaintext it encrypts.                                              *)
(***************************************************************************)
EXTENDS Integers, Sequences, FiniteSets, TLC

(* ---------------------------- program constants ------------------------ *)

DELAY_PERIOD == 86400

MAX_BATCH_SIZE == 50

HIGH_TRUST_THRESHOLD == 75

MEDIUM_TRUST_THRESHOLD == 40

MAX_SCORE == 100

SCORE_EXPIRY == 7776000

MAX_SUPPLY == 1000000000

EscrowMilestone == "Pending employer approval"

(* ------------------------------- bounds -------------------------------- *)

\* Salaries range over 0..MaxSalary.
MaxSalary == 2

\* No payment id at or above MaxPayments is ever assigned.
MaxPayments == 4

\* The ledger owner mints at most MaxMints times.
MaxMints == 1

\* Number of calls (and clock advances) of a behaviour after its setup.
MaxCalls == 2

\* Number of DELAY_PERIOD windows the clock can advance through.
MaxDelays == 1

\* Payroll runs in the payment-lifecycle specification.
MaxRuns == 1

\* Employees on the roster beyond the batch cap.
MaxExtra == 2

\* Payroll runs over a roster longer than the batch cap.
MaxBatchRuns == 2

\* The largest score an oracle submits (MAX_SCORE is 100).
MaxScoreInput == 150

\* Encrypted integers are modelled modulo UintMod (the arithmetic of the
\* engine never leaves 0..MaxSalary, so the reduced width loses nothing).
UintMod == 65536

(* ------------------------------ principals ----------------------------- *)

ZERO == "0x0"

Owner == "owner"

Employer0 == "employer"

Employer2 == "employer2"

Oracle == "oracle"

Core == "core"

\* The deployed TrustScoring and PayGramToken, and another contract address.
Registry == "registry"

Token == "token"

Contract2 == "contract2"

Wallets == {"alice", "bob"}

Callers == {Owner, Employer0, Employer2, Oracle}

Roles == {"engineer"}

Salaries == 0..MaxSalary

\* Scores submitted by the oracle: both sides of each threshold.
Scores == {39, 40, 74, 75}

PaymentIds == 0..MaxPayments

\* block.timestamp at deployment.
T0 == 1

\* Instants the clock visits: each delay boundary and the second before it.
DelayPoints ==
    {T0 + k * DELAY_PERIOD : k \in 0..MaxDelays}
        \cup {T0 + k * DELAY_PERIOD - 1 : k \in 1..MaxDelays}

\* ... and the last second of the expiry window of a score set at T0, and
\* the first second after it.
TimePoints == DelayPoints \cup {T0 + SCORE_EXPIRY, T0 + SCORE_EXPIRY + 1}

VARIABLES
    employer,               \* PayGramCore.employer
    employees,              \* PayGramCore._employees
    employeeList,           \* PayGramCore.employeeList
    pendingPayments,        \* PayGramCore.pendingPayments
    nextPaymentId,          \* PayGramCore.nextPaymentId
    totalPayrollsExecuted,  \* PayGramCore.totalPayrollsExecuted
    payrollLock,            \* PayGramCore._payrollLock
    trustScoring,           \* PayGramCore.trustScoring
    payToken,               \* PayGramCore.payToken
    salaryAcl,              \* grants on each stored salary ciphertext
    trustScores,            \* TrustScoring._trustScores
    hasScore,               \* TrustScoring._hasScore
    authorizedOracles,      \* TrustScoring.authorizedOracles
    lastScoreUpdate,        \* TrustScoring.lastScoreUpdate
    totalScoredAddresses,   \* TrustScoring.totalScoredAddresses
    balances,               \* ledger balances (ERC-7984 _balances)
    totalMinted,            \* PayGramToken.totalMinted
    paused,                 \* PayGramToken (Pausable) paused flag
    now,                    \* block.timestamp
    lastCall,               \* the last external call and its outcome
    calls                   \* number of steps taken since the setup

coreVars ==
    <<employer, employees, employeeList, pendingPayments, nextPaymentId,
      totalPayrollsExecuted, payrollLock, trustScoring, payToken, salaryAcl>>

registryVars ==
    <<trustScores, hasScore, authorizedOracles, lastScoreUpdate,
      totalScoredAddresses>>

ledgerVars == <<balances, totalMinted, paused>>

vars == <<coreVars, registryVars, ledgerVars, now, lastCall, calls>>

(* ------------------------------- records ------------------------------- *)

NoEmployee ==
    [wallet |-> ZERO, encryptedSalary |-> 0, isActive |-> FALSE,
     hireDate |-> 0, lastPayDate |-> 0, role |-> ""]

NoPayment ==
    [id |-> 0, employee |-> ZERO, encryptedAmount |-> 0, status |-> "None",
     createdAt |-> 0, releaseTime |-> 0, milestone |-> ""]

Call(op, err) == [op |-> op, err |-> err]

(* --------------------------- ciphertext engine ------------------------- *)

FHEselect(c, a, b) == IF c THEN a ELSE b

FHEsub(a, b) == (a - b) % UintMod

FHEge(a, b) == a >= b

FHEle(a, b) == a <= b

FHElt(a, b) == a < b

(* ------------------------------- ledger -------------------------------- *)

\* confidentialTransfer(to, amount) called by `from`: rejected while the
\* token is paused or when the balance of `from` would go negative.
TransferAccepted(bal, from, amt) == ~paused /\ bal[from] >= amt

confidentialTransfer(bal, from, to, amt) ==
    [bal EXCEPT ![from] = @ - amt, ![to] = @ + amt]

(* ---------------------------- trust registry --------------------------- *)

\* Mutant: the score expires at the boundary instant.
isExpiredInclusive(account) == now >= lastScoreUpdate[account] + SCORE_EXPIRY

isExpired(account) == now > lastScoreUpdate[account] + SCORE_EXPIRY

isScoreExpired(account) ==
    IF ~hasScore[account] THEN TRUE ELSE isExpired(account)

\* Mutant: the expiry is tested before the presence of a score.
TierQueryErrExpiryFirst(account) ==
    IF isExpired(account) THEN "ScoreExpired"
    ELSE IF ~hasScore[account] THEN "AccountNotScored"
    ELSE "ok"

\* Outcome of the modifiers scored(account) notExpired(account).
TierQueryErr(account) ==
    IF ~hasScore[account] THEN "AccountNotScored"
    ELSE IF isExpired(account) THEN "ScoreExpired"
    ELSE "ok"

\* Mutant: a strict comparison against the HIGH threshold.
isHighTrustStrict(account) == trustScores[account] > HIGH_TRUST_THRESHOLD

isHighTrust(account) == FHEge(trustScores[account], HIGH_TRUST_THRESHOLD)

isMediumTrust(account) == FHEge(trustScores[account], MEDIUM_TRUST_THRESHOLD)

\* Mutant: the LOW comparison includes the MEDIUM threshold.
isLowTrustInclusive(account) == trustScores[account] <= MEDIUM_TRUST_THRESHOLD

isLowTrust(account) == FHElt(trustScores[account], MEDIUM_TRUST_THRESHOLD)

\* Mutant: the selects are nested the other way round.
getTrustTierMediumFirst(account) ==
    LET score  == trustScores[account]
        isHigh == FHEge(score, HIGH_TRUST_THRESHOLD)
        isMed  == FHEge(score, MEDIUM_TRUST_THRESHOLD)
    IN FHEselect(isMed, 1, FHEselect(isHigh, 2, 0))

\* 2 = HIGH, 1 = MEDIUM, 0 = LOW.
getTrustTier(account) ==
    LET score  == trustScores[account]
        isHigh == FHEge(score, HIGH_TRUST_THRESHOLD)
        isMed  == FHEge(score, MEDIUM_TRUST_THRESHOLD)
    IN FHEselect(isHigh, 2, FHEselect(isMed, 1, 0))

\* The state reached from construction by a setup made of successful calls
\* in the deployment block (timestamp T0): setOracle(Oracle, true) when a
\* score is set, addEmployeePlaintext(w, sal[w], "engineer") for the wallets
\* of `list` in order, setTrustScorePlaintext(w, sc[w]) for every w with
\* sc[w] # -1, and mint(Core, fund).  With list = <<>>, no score and
\* fund = 0 it is the state right after construction.
SetupState(list, sal, sc, fund) ==
    LET added  == {list[i] : i \in 1..Len(list)}
        scored == {w \in Wallets : sc[w] # -1}
    IN
    /\ employer = Employer0
    /\ employees = [w \in Wallets |->
            IF w \in added
                THEN [wallet |-> w, encryptedSalary |-> sal[w],
                      isActive |-> TRUE, hireDate |-> T0,
                      lastPayDate |-> 0, role |-> "engineer"]
                ELSE NoEmployee]
    /\ employeeList = list
    /\ pendingPayments = [i \in PaymentIds |-> NoPayment]
    /\ nextPaymentId = 0
    /\ totalPayrollsExecuted = 0
    /\ payrollLock = FALSE
    /\ trustScoring = Registry
    /\ payToken = Token
    /\ salaryAcl = [w \in Wallets |->
            IF w \in added THEN {Core, Employer0, w} ELSE {}]
    /\ trustScores = [w \in Wallets |-> IF w \in scored THEN sc[w] ELSE 0]
    /\ hasScore = [w \in Wallets |-> w \in scored]
    /\ authorizedOracles = [c \in Callers |-> c = Oracle /\ scored # {}]
    /\ lastScoreUpdate = [w \in Wallets |-> IF w \in scored THEN T0 ELSE 0]
    /\ totalScoredAddresses = Cardinality(scored)
    /\ balances = [a \in Wallets \cup {Core} |-> IF a = Core THEN fund ELSE 0]
    /\ totalMinted = fund
    /\ paused = FALSE
    /\ now = T0
    /\ lastCall = Call("setup", "ok")
    /\ calls = 0

Rosters == {<<>>, <<"alice">>, <<"alice", "bob">>}

\* Salaries of the setup: alice 1, bob MaxSalary.
SetupSalary == [w \in Wallets |-> IF w = "alice" THEN 1 ELSE MaxSalary]

Pair(a, b) == [w \in Wallets |-> IF w = "alice" THEN a ELSE b]

Init ==
    \E list \in Rosters,
       sc \in {Pair(-1, -1), Pair(75, -1), Pair(40, 39)},
       fund \in {0, MaxSalary} :
        SetupState(list, SetupSalary, sc, fund)

(* ------------------- payroll engine: employee management --------------- *)

\* Mutant: the existence check looks at the active flag.
AddEmployeeErrActiveOnly(caller, wallet, proofOk) ==
    IF caller # employer THEN "NotEmployer"
    ELSE IF wallet = ZERO THEN "ZeroAddress"
    ELSE IF employees[wallet].isActive THEN "EmployeeAlreadyExists"
    ELSE IF ~proofOk THEN "InvalidProof"
    ELSE "ok"

\* Outcome of the checks of addEmployee / addEmployeePlaintext, in order.
AddEmployeeErr(caller, wallet, proofOk) ==
    IF caller # employer THEN "NotEmployer"
    ELSE IF wallet = ZERO THEN "ZeroAddress"
    ELSE IF employees[wallet].wallet # ZERO THEN "EmployeeAlreadyExists"
    ELSE IF ~proofOk THEN "InvalidProof"
    ELSE "ok"

\* Mutant: an inactive employee is reported as not found.
RequireActiveEmployeeErrOneError(caller, wallet) ==
    IF caller # employer THEN "NotEmployer"
    ELSE IF wallet = ZERO \/ ~employees[wallet].isActive
        THEN "EmployeeNotFound"
    ELSE "ok"

\* _requireActiveEmployee, behind onlyEmployer.
RequireActiveEmployeeErr(caller, wallet) ==
    IF caller # employer THEN "NotEmployer"
    ELSE IF wallet = ZERO \/ employees[wallet].wallet = ZERO
        THEN "EmployeeNotFound"
    ELSE IF ~employees[wallet].isActive THEN "EmployeeNotActive"
    ELSE "ok"

\* Mutant: the employee gets no grant on the own salary.
setSalaryPermissionsNoEmployee(wallet) ==
    {Core, employer}

\* _setSalaryPermissions: the principals granted on the ciphertext about to
\* be stored for the wallet.
setSalaryPermissions(wallet) ==
    {Core, employer, wallet}

storeEmployee(wallet, salary, role) ==
    /\ salaryAcl' = [salaryAcl EXCEPT ![wallet] = setSalaryPermissions(wallet)]
    /\ employees' = [employees EXCEPT ![wallet] =
            [wallet |-> wallet, encryptedSalary |-> salary, isActive |-> TRUE,
             hireDate |-> now, lastPayDate |-> 0, role |-> role]]
    /\ employeeList' = Append(employeeList, wallet)

addEmployee(caller, wallet, salary, proofOk, role) ==
    LET err == AddEmployeeErr(caller, wallet, proofOk) IN
    /\ lastCall' = Call("addEmployee", err)
    /\ IF err = "ok"
        THEN storeEmployee(wallet, salary, role)
        ELSE UNCHANGED <<employees, employeeList, salaryAcl>>
    /\ UNCHANGED <<trustScoring, payToken, employer, pendingPayments, nextPaymentId,
                   totalPayrollsExecuted, payrollLock>>
    /\ UNCHANGED <<registryVars, ledgerVars, now>>

addEmployeePlaintext(caller, wallet, salary, role) ==
    LET err == AddEmployeeErr(caller, wallet, TRUE) IN
    /\ lastCall' = Call("addEmployeePlaintext", err)
    /\ IF err = "ok"
        THEN storeEmployee(wallet, salary, role)
        ELSE UNCHANGED <<employees, employeeList, salaryAcl>>
    /\ UNCHANGED <<trustScoring, payToken, employer, pendingPayments, nextPaymentId,
                   totalPayrollsExecuted, payrollLock>>
    /\ UNCHANGED <<registryVars, ledgerVars, now>>

\* Mutant: removal also closes the pending payments of the employee.
removeEmployeeCancels(caller, wallet) ==
    LET err == RequireActiveEmployeeErr(caller, wallet) IN
    /\ lastCall' = Call("removeEmployee", err)
    /\ IF err = "ok"
        THEN /\ employees' = [employees EXCEPT ![wallet].isActive = FALSE]
             /\ pendingPayments' =
                    [i \in PaymentIds |->
                        IF /\ pendingPayments[i].employee = wallet
                           /\ pendingPayments[i].status \in {"Delayed", "Escrowed"}
                            THEN [pendingPayments[i] EXCEPT !.status = "Completed"]
                            ELSE pendingPayments[i]]
        ELSE UNCHANGED <<employees, pendingPayments>>
    /\ UNCHANGED <<trustScoring, payToken, salaryAcl, employer, employeeList, nextPaymentId,
                   totalPayrollsExecuted, payrollLock>>
    /\ UNCHANGED <<registryVars, ledgerVars, now>>

removeEmployee(caller, wallet) ==
    LET err == RequireActiveEmployeeErr(caller, wallet) IN
    /\ lastCall' = Call("removeEmployee", err)
    /\ IF err = "ok"
        THEN employees' = [employees EXCEPT ![wallet].isActive = FALSE]
        ELSE UNCHANGED employees
    /\ UNCHANGED <<trustScoring, payToken, salaryAcl, employer, employeeList, pendingPayments, nextPaymentId,
                   totalPayrollsExecuted, payrollLock>>
    /\ UNCHANGED <<registryVars, ledgerVars, now>>

updateSalary(caller, wallet, salary, proofOk) ==
    LET pre == RequireActiveEmployeeErr(caller, wallet)
        err == IF pre = "ok" /\ ~proofOk THEN "InvalidProof" ELSE pre
    IN
    /\ lastCall' = Call("updateSalary", err)
    /\ IF err = "ok"
        THEN /\ salaryAcl' = [salaryAcl EXCEPT
                                ![wallet] = setSalaryPermissions(wallet)]
             /\ employees' = [employees EXCEPT ![wallet].encryptedSalary = salary]
        ELSE UNCHANGED <<employees, salaryAcl>>
    /\ UNCHANGED <<trustScoring, payToken, employer, employeeList, pendingPayments, nextPaymentId,
                   totalPayrollsExecuted, payrollLock>>
    /\ UNCHANGED <<registryVars, ledgerVars, now>>

updateSalaryPlaintext(caller, wallet, salary) ==
    LET err == RequireActiveEmployeeErr(caller, wallet) IN
    /\ lastCall' = Call("updateSalaryPlaintext", err)
    /\ IF err = "ok"
        THEN /\ salaryAcl' = [salaryAcl EXCEPT
                                ![wallet] = setSalaryPermissions(wallet)]
             /\ employees' = [employees EXCEPT ![wallet].encryptedSalary = salary]
        ELSE UNCHANGED <<employees, salaryAcl>>
    /\ UNCHANGED <<trustScoring, payToken, employer, employeeList, pendingPayments, nextPaymentId,
                   totalPayrollsExecuted, payrollLock>>
    /\ UNCHANGED <<registryVars, ledgerVars, now>>

updateEmployeeRole(caller, wallet, newRole) ==
    LET err == RequireActiveEmployeeErr(caller, wallet) IN
    /\ lastCall' = Call("updateEmployeeRole", err)
    /\ IF err = "ok"
        THEN employees' = [employees EXCEPT ![wallet].role = newRole]
        ELSE UNCHANGED employees
    /\ UNCHANGED <<trustScoring, payToken, salaryAcl, employer, employeeList, pendingPayments, nextPaymentId,
                   totalPayrollsExecuted, payrollLock>>
    /\ UNCHANGED <<registryVars, ledgerVars, now>>

\* Mutant: the employer too may point the engine at another registry.
updateTrustScoringEmployerToo(caller, newTrustScoring) ==
    LET err == IF caller # Owner /\ caller # employer
                   THEN "OwnableUnauthorizedAccount"
               ELSE IF newTrustScoring = ZERO THEN "ZeroAddress"
               ELSE "ok"
    IN
    /\ lastCall' = Call("updateTrustScoring", err)
    /\ trustScoring' = IF err = "ok" THEN newTrustScoring ELSE trustScoring
    /\ UNCHANGED <<payToken, salaryAcl, employer, employees, employeeList,
                   pendingPayments, nextPaymentId, totalPayrollsExecuted,
                   payrollLock>>
    /\ UNCHANGED <<registryVars, ledgerVars, now>>

updateTrustScoring(caller, newTrustScoring) ==
    LET err == IF caller # Owner THEN "OwnableUnauthorizedAccount"
               ELSE IF newTrustScoring = ZERO THEN "ZeroAddress"
               ELSE "ok"
    IN
    /\ lastCall' = Call("updateTrustScoring", err)
    /\ trustScoring' = IF err = "ok" THEN newTrustScoring ELSE trustScoring
    /\ UNCHANGED <<payToken, salaryAcl, employer, employees, employeeList,
                   pendingPayments, nextPaymentId, totalPayrollsExecuted,
                   payrollLock>>
    /\ UNCHANGED <<registryVars, ledgerVars, now>>

updatePayToken(caller, newPayToken) ==
    LET err == IF caller # Owner THEN "OwnableUnauthorizedAccount"
               ELSE IF newPayToken = ZERO THEN "ZeroAddress"
               ELSE "ok"
    IN
    /\ lastCall' = Call("updatePayToken", err)
    /\ payToken' = IF err = "ok" THEN newPayToken ELSE payToken
    /\ UNCHANGED <<trustScoring, salaryAcl, employer, employees, employeeList,
                   pendingPayments, nextPaymentId, totalPayrollsExecuted,
                   payrollLock>>
    /\ UNCHANGED <<registryVars, ledgerVars, now>>

\* Mutant: the new employer is granted every stored salary.
transferEmployerGranting(caller, newEmployer) ==
    LET err == IF caller # Owner THEN "OwnableUnauthorizedAccount"
               ELSE IF newEmployer = ZERO THEN "ZeroAddress"
               ELSE "ok"
    IN
    /\ lastCall' = Call("transferEmployer", err)
    /\ employer' = IF err = "ok" THEN newEmployer ELSE employer
    /\ salaryAcl' = IF err = "ok"
                      THEN [w \in Wallets |->
                              IF salaryAcl[w] = {} THEN {}
                              ELSE salaryAcl[w] \cup {newEmployer}]
                      ELSE salaryAcl
    /\ UNCHANGED <<trustScoring, payToken, employees, employeeList, pendingPayments, nextPaymentId,
                   totalPayrollsExecuted, payrollLock>>
    /\ UNCHANGED <<registryVars, ledgerVars, now>>

transferEmployer(caller, newEmployer) ==
    LET err == IF caller # Owner THEN "OwnableUnauthorizedAccount"
               ELSE IF newEmployer = ZERO THEN "ZeroAddress"
               ELSE "ok"
    IN
    /\ lastCall' = Call("transferEmployer", err)
    /\ employer' = IF err = "ok" THEN newEmployer ELSE employer
    /\ UNCHANGED <<trustScoring, payToken, salaryAcl, employees, employeeList, pendingPayments, nextPaymentId,
                   totalPayrollsExecuted, payrollLock>>
    /\ UNCHANGED <<registryVars, ledgerVars, now>>

(* -------------------- payroll engine: payroll execution ---------------- *)

\* Mutant: the delayed amount selected from the salary, not from `remaining`.
RouteAmountsFromSalary(salary, isHigh, isMed) ==
    LET zero       == 0
        instantAmt == FHEselect(isHigh, salary, zero)
        remaining  == FHEsub(salary, instantAmt)
        delayedAmt == FHEselect(isMed, salary, zero)
        escrowAmt  == FHEsub(remaining, delayedAmt)
    IN [instant |-> instantAmt, delayed |-> delayedAmt, escrow |-> escrowAmt]

\* The oblivious amount computation of _processWithTrustTier.
RouteAmounts(salary, isHigh, isMed) ==
    LET zero       == 0
        instantAmt == FHEselect(isHigh, salary, zero)
        remaining  == FHEsub(salary, instantAmt)
        delayedAmt == FHEselect(isMed, remaining, zero)
        escrowAmt  == FHEsub(remaining, delayedAmt)
    IN [instant |-> instantAmt, delayed |-> delayedAmt, escrow |-> escrowAmt]

\* The working state of one executePayroll transaction:
\*   pp, npid, emps, bal : pendingPayments, nextPaymentId, _employees, balances
\*   processed           : the loop counter `processed`
\*   err                 : "ok", or the error that reverts the transaction
NewPayment(st, employee, amount, status, releaseTime, milestone) ==
    [st EXCEPT
        !.pp = [@ EXCEPT ![st.npid] =
                    [id |-> st.npid, employee |-> employee,
                     encryptedAmount |-> amount, status |-> status,
                     createdAt |-> now, releaseTime |-> releaseTime,
                     milestone |-> milestone]],
        !.npid = @ + 1]

processInstantPayment(st, employee, amount) ==
    IF ~TransferAccepted(st.bal, Core, amount)
        THEN [st EXCEPT !.err = "LedgerRejected"]
        ELSE NewPayment(
                [st EXCEPT !.bal = confidentialTransfer(@, Core, employee, amount)],
                employee, amount, "Instant", 0, "")

processDelayedPayment(st, employee, amount) ==
    NewPayment(st, employee, amount, "Delayed", now + DELAY_PERIOD, "")

processEscrowPaymentEncrypted(st, employee, amount) ==
    NewPayment(st, employee, amount, "Escrowed", 0, EscrowMilestone)

\* Mutant: the escrow record is written only if the engine holds its amount.
processEscrowPaymentFunded(st, emp) ==
    IF ~TransferAccepted(st.bal, Core, emp.encryptedSalary)
        THEN [st EXCEPT !.err = "LedgerRejected"]
        ELSE NewPayment(st, emp.wallet, emp.encryptedSalary, "Escrowed", 0,
                        EscrowMilestone)

\* Mutant: the record carries a release time, as a delayed one does.
processEscrowPaymentTimed(st, emp) ==
    NewPayment(st, emp.wallet, emp.encryptedSalary, "Escrowed", now + DELAY_PERIOD,
               EscrowMilestone)

processEscrowPayment(st, emp) ==
    NewPayment(st, emp.wallet, emp.encryptedSalary, "Escrowed", 0,
               EscrowMilestone)

\* Mutant: the three payments are processed in the opposite order.
processWithTrustTierEscrowFirst(st, emp) ==
    IF TierQueryErr(emp.wallet) # "ok"
        THEN [st EXCEPT !.err = TierQueryErr(emp.wallet)]
        ELSE
            LET amt == RouteAmounts(emp.encryptedSalary,
                                    isHighTrust(emp.wallet),
                                    isMediumTrust(emp.wallet))
                s1  == processEscrowPaymentEncrypted(st, emp.wallet, amt.escrow)
                s2  == processDelayedPayment(s1, emp.wallet, amt.delayed)
            IN processInstantPayment(s2, emp.wallet, amt.instant)

\* Mutant: a path whose amount is zero writes no record.
processWithTrustTierSkipZero(st, emp) ==
    IF TierQueryErr(emp.wallet) # "ok"
        THEN [st EXCEPT !.err = TierQueryErr(emp.wallet)]
        ELSE
            LET amt == RouteAmounts(emp.encryptedSalary,
                                    isHighTrust(emp.wallet),
                                    isMediumTrust(emp.wallet))
                s1  == IF amt.instant = 0 THEN st
                       ELSE processInstantPayment(st, emp.wallet, amt.instant)
                s2  == IF amt.delayed = 0 THEN s1
                       ELSE processDelayedPayment(s1, emp.wallet, amt.delayed)
                s3  == IF amt.escrow = 0 THEN s2
                       ELSE processEscrowPaymentEncrypted(s2, emp.wallet, amt.escrow)
            IN IF s1.err # "ok" THEN s1 ELSE s3

processWithTrustTier(st, emp) ==
    IF TierQueryErr(emp.wallet) # "ok"
        THEN [st EXCEPT !.err = TierQueryErr(emp.wallet)]
        ELSE
            LET amt == RouteAmounts(emp.encryptedSalary,
                                    isHighTrust(emp.wallet),
                                    isMediumTrust(emp.wallet))
                s1  == processInstantPayment(st, emp.wallet, amt.instant)
                s2  == processDelayedPayment(s1, emp.wallet, amt.delayed)
                s3  == processEscrowPaymentEncrypted(s2, emp.wallet, amt.escrow)
            IN IF s1.err # "ok" THEN s1 ELSE s3

RECURSIVE PayrollLoopCountsInactive(_, _)
\* Mutant: an inactive employee counts toward the cap.
PayrollLoopCountsInactive(i, st) ==
    IF i > Len(employeeList) \/ st.processed >= MAX_BATCH_SIZE \/ st.err # "ok"
        THEN st
        ELSE
            LET w   == employeeList[i]
                emp == st.emps[w]
                s1  == [st EXCEPT !.processed = @ + 1]
            IN
            IF ~emp.isActive
                THEN PayrollLoopCountsInactive(i + 1, s1)
                ELSE
                    LET s2 == IF ~hasScore[emp.wallet]
                                THEN processEscrowPayment(s1, emp)
                                ELSE processWithTrustTier(s1, emp)
                        s3 == [s2 EXCEPT !.emps[w].lastPayDate = now]
                    IN IF s2.err # "ok" THEN s2
                       ELSE PayrollLoopCountsInactive(i + 1, s3)

RECURSIVE PayrollLoopOneMore(_, _)
\* Mutant: the loop stops one employee late.
PayrollLoopOneMore(i, st) ==
    IF i > Len(employeeList) \/ st.processed > MAX_BATCH_SIZE \/ st.err # "ok"
        THEN st
        ELSE
            LET w   == employeeList[i]
                emp == st.emps[w]
            IN
            IF ~emp.isActive
                THEN PayrollLoopOneMore(i + 1, st)
                ELSE
                    LET s1 == [st EXCEPT !.processed = @ + 1]
                        s2 == IF ~hasScore[emp.wallet]
                                THEN processEscrowPayment(s1, emp)
                                ELSE processWithTrustTier(s1, emp)
                        s3 == [s2 EXCEPT !.emps[w].lastPayDate = now]
                    IN IF s2.err # "ok" THEN s2 ELSE PayrollLoopOneMore(i + 1, s3)

RECURSIVE PayrollLoopStampScored(_, _)
\* Mutant: lastPayDate is written on the scored path only.
PayrollLoopStampScored(i, st) ==
    IF i > Len(employeeList) \/ st.processed >= MAX_BATCH_SIZE \/ st.err # "ok"
        THEN st
        ELSE
            LET w   == employeeList[i]
                emp == st.emps[w]
            IN
            IF ~emp.isActive
                THEN PayrollLoopStampScored(i + 1, st)
                ELSE
                    LET s1 == [st EXCEPT !.processed = @ + 1]
                        s2 == IF ~hasScore[emp.wallet]
                                THEN processEscrowPayment(s1, emp)
                                ELSE processWithTrustTier(s1, emp)
                        s3 == IF ~hasScore[emp.wallet] THEN s2
                              ELSE [s2 EXCEPT !.emps[w].lastPayDate = now]
                    IN IF s2.err # "ok" THEN s2
                       ELSE PayrollLoopStampScored(i + 1, s3)

RECURSIVE PayrollLoopExpiredAsUnscored(_, _)
\* Mutant: an expired score is treated like a missing one.
PayrollLoopExpiredAsUnscored(i, st) ==
    IF i > Len(employeeList) \/ st.processed >= MAX_BATCH_SIZE \/ st.err # "ok"
        THEN st
        ELSE
            LET w   == employeeList[i]
                emp == st.emps[w]
            IN
            IF ~emp.isActive
                THEN PayrollLoopExpiredAsUnscored(i + 1, st)
                ELSE
                    LET s1 == [st EXCEPT !.processed = @ + 1]
                        s2 == IF ~hasScore[emp.wallet] \/ isExpired(emp.wallet)
                                THEN processEscrowPayment(s1, emp)
                                ELSE processWithTrustTier(s1, emp)
                        s3 == [s2 EXCEPT !.emps[w].lastPayDate = now]
                    IN IF s2.err # "ok" THEN s2
                       ELSE PayrollLoopExpiredAsUnscored(i + 1, s3)

RECURSIVE PayrollLoop(_, _)
\* The for loop of executePayroll, from list position i (1-based).
PayrollLoop(i, st) ==
    IF i > Len(employeeList) \/ st.processed >= MAX_BATCH_SIZE \/ st.err # "ok"
        THEN st
        ELSE
            LET w   == employeeList[i]
                emp == st.emps[w]
            IN
            IF ~emp.isActive
                THEN PayrollLoop(i + 1, st)
                ELSE
                    LET s1 == [st EXCEPT !.processed = @ + 1]
                        s2 == IF ~hasScore[emp.wallet]
                                THEN processEscrowPayment(s1, emp)
                                ELSE processWithTrustTier(s1, emp)
                        s3 == [s2 EXCEPT !.emps[w].lastPayDate = now]
                    IN IF s2.err # "ok" THEN s2 ELSE PayrollLoop(i + 1, s3)

PayrollRun ==
    PayrollLoop(1, [pp |-> pendingPayments, npid |-> nextPaymentId,
                    emps |-> employees, bal |-> balances,
                    processed |-> 0, err |-> "ok"])

\* Mutant: a run that processes nobody is not counted.
executePayrollSkipEmpty(caller) ==
    LET run == PayrollRun
        err == IF caller # employer THEN "NotEmployer"
               ELSE IF payrollLock THEN "PayrollLocked"
               ELSE run.err
    IN
    /\ err = "ok" => run.npid \in DOMAIN pendingPayments
    /\ lastCall' = Call("executePayroll", err)
    /\ IF err = "ok"
        THEN /\ pendingPayments' = run.pp
             /\ nextPaymentId' = run.npid
             /\ employees' = run.emps
             /\ balances' = run.bal
             /\ totalPayrollsExecuted' =
                    IF run.processed = 0 THEN totalPayrollsExecuted
                    ELSE totalPayrollsExecuted + 1
        ELSE UNCHANGED <<pendingPayments, nextPaymentId, employees, balances,
                         totalPayrollsExecuted>>
    /\ payrollLock' = FALSE
    /\ UNCHANGED <<trustScoring, payToken, salaryAcl, employer, employeeList, totalMinted, paused>>
    /\ UNCHANGED <<registryVars, now>>

\* Mutant: a failure inside the loop ends the call without undoing what the
\* loop has written.
executePayrollPartial(caller) ==
    LET run == PayrollRun
        err == IF caller # employer THEN "NotEmployer"
               ELSE IF payrollLock THEN "PayrollLocked"
               ELSE run.err
    IN
    /\ err = "ok" => run.npid \in DOMAIN pendingPayments
    /\ lastCall' = Call("executePayroll", err)
    /\ IF err \notin {"NotEmployer", "PayrollLocked"}
        THEN /\ pendingPayments' = run.pp
             /\ nextPaymentId' = run.npid
             /\ employees' = run.emps
             /\ balances' = run.bal
             /\ totalPayrollsExecuted' =
                    IF err = "ok" THEN totalPayrollsExecuted + 1
                    ELSE totalPayrollsExecuted
        ELSE UNCHANGED <<pendingPayments, nextPaymentId, employees, balances,
                         totalPayrollsExecuted>>
    /\ payrollLock' = FALSE
    /\ UNCHANGED <<trustScoring, payToken, salaryAcl, employer, employeeList, totalMinted, paused>>
    /\ UNCHANGED <<registryVars, now>>

executePayroll(caller) ==
    LET run == PayrollRun
        err == IF caller # employer THEN "NotEmployer"
               ELSE IF payrollLock THEN "PayrollLocked"
               ELSE run.err
    IN
    /\ err = "ok" => run.npid \in DOMAIN pendingPayments
    /\ lastCall' = Call("executePayroll", err)
    /\ IF err = "ok"
        THEN /\ pendingPayments' = run.pp
             /\ nextPaymentId' = run.npid
             /\ employees' = run.emps
             /\ balances' = run.bal
             /\ totalPayrollsExecuted' = totalPayrollsExecuted + 1
        ELSE UNCHANGED <<pendingPayments, nextPaymentId, employees, balances,
                         totalPayrollsExecuted>>
    /\ payrollLock' = FALSE
    /\ UNCHANGED <<trustScoring, payToken, salaryAcl, employer, employeeList, totalMinted, paused>>
    /\ UNCHANGED <<registryVars, now>>

(* ------------- payroll engine: executePayroll step by step ------------- *)

\* While a call of executePayroll is in progress lastCall holds its frame:
\*   err = "running", i : the list position of the next iteration,
\*   processed : the loop counter, saved : the storage a revert restores,
\*   nested, nestedCaller : the outcome and the caller of the last call of
\*   executePayroll made from inside an external call ("none" before any).
PayrollFrame(i, processed, saved, nested, nestedCaller) ==
    [op |-> "executePayroll", err |-> "running", i |-> i,
     processed |-> processed, saved |-> saved, nested |-> nested,
     nestedCaller |-> nestedCaller]

PayrollStorage(processed) ==
    [pp |-> pendingPayments, npid |-> nextPaymentId, emps |-> employees,
     bal |-> balances, processed |-> processed, err |-> "ok"]

WritePayrollStorage(st) ==
    /\ pendingPayments' = st.pp
    /\ nextPaymentId' = st.npid
    /\ employees' = st.emps
    /\ balances' = st.bal

\* The body of the for loop of executePayroll at list position i.
PayrollIteration(i, st) ==
    LET w   == employeeList[i]
        emp == st.emps[w]
    IN
    IF ~emp.isActive
        THEN st
        ELSE
            LET s1 == [st EXCEPT !.processed = @ + 1]
                s2 == IF ~hasScore[emp.wallet]
                        THEN processEscrowPayment(s1, emp)
                        ELSE processWithTrustTier(s1, emp)
            IN IF s2.err # "ok" THEN s2
               ELSE [s2 EXCEPT !.emps[w].lastPayDate = now]

\* Mutant: the lock is never taken.
payrollEnterNoLock(caller) ==
    LET err == IF caller # employer THEN "NotEmployer"
               ELSE IF payrollLock THEN "PayrollLocked"
               ELSE "ok"
    IN
    /\ lastCall.err = "ok"
    /\ lastCall' = IF err = "ok"
                     THEN PayrollFrame(1, 0, PayrollStorage(0), "none", ZERO)
                     ELSE Call("executePayroll", err)
    /\ UNCHANGED payrollLock
    /\ UNCHANGED <<trustScoring, payToken, salaryAcl, employer, employees, employeeList, pendingPayments,
                   nextPaymentId, totalPayrollsExecuted>>
    /\ UNCHANGED <<registryVars, ledgerVars, now>>

\* The modifiers onlyEmployer and noReentrantPayroll up to the function body.
payrollEnter(caller) ==
    LET err == IF caller # employer THEN "NotEmployer"
               ELSE IF payrollLock THEN "PayrollLocked"
               ELSE "ok"
    IN
    /\ lastCall.err = "ok"
    /\ lastCall' = IF err = "ok"
                     THEN PayrollFrame(1, 0, PayrollStorage(0), "none", ZERO)
                     ELSE Call("executePayroll", err)
    /\ payrollLock' = (err = "ok")
    /\ UNCHANGED <<trustScoring, payToken, salaryAcl, employer, employees, employeeList, pendingPayments,
                   nextPaymentId, totalPayrollsExecuted>>
    /\ UNCHANGED <<registryVars, ledgerVars, now>>

\* One iteration of the loop; an error reverts the whole call.
payrollIterate ==
    /\ lastCall.err = "running"
    /\ lastCall.i <= Len(employeeList)
    /\ lastCall.processed < MAX_BATCH_SIZE
    /\ LET st == PayrollIteration(lastCall.i, PayrollStorage(lastCall.processed))
       IN IF st.err = "ok"
            THEN /\ WritePayrollStorage(st)
                 /\ lastCall' = [lastCall EXCEPT !.i = @ + 1,
                                                 !.processed = st.processed,
                                                 !.nested = "none",
                                                 !.nestedCaller = ZERO]
                 /\ UNCHANGED payrollLock
            ELSE /\ WritePayrollStorage(lastCall.saved)
                 /\ lastCall' = Call("executePayroll", st.err)
                 /\ payrollLock' = FALSE
    /\ UNCHANGED <<trustScoring, payToken, salaryAcl, employer, employeeList, totalPayrollsExecuted, totalMinted, paused>>
    /\ UNCHANGED <<registryVars, now>>

\* A call of executePayroll by `caller` from inside an external call of the
\* iteration at hand (the loop calls out only for an active employee): the
\* modifiers of the nested call, which revert it or let it in ("entered").
payrollReenter(caller) ==
    LET err == IF caller # employer THEN "NotEmployer"
               ELSE IF payrollLock THEN "PayrollLocked"
               ELSE "entered"
    IN
    /\ lastCall.err = "running"
    /\ lastCall.i <= Len(employeeList)
    /\ lastCall.processed < MAX_BATCH_SIZE
    /\ employees[employeeList[lastCall.i]].isActive
    /\ lastCall' = [lastCall EXCEPT !.nested = err, !.nestedCaller = caller]
    /\ UNCHANGED <<coreVars, registryVars, ledgerVars, now>>

\* The external call hands the failure of the nested call on: the whole
\* call reverts.
payrollAbort ==
    /\ lastCall.err = "running"
    /\ lastCall.nested # "none"
    /\ WritePayrollStorage(lastCall.saved)
    /\ lastCall' = Call("executePayroll", lastCall.nested)
    /\ payrollLock' = FALSE
    /\ UNCHANGED <<trustScoring, payToken, salaryAcl, employer, employeeList, totalPayrollsExecuted, totalMinted, paused>>
    /\ UNCHANGED <<registryVars, now>>

\* The loop is over: the counter, and the modifier's release of the lock.
payrollExit ==
    /\ lastCall.err = "running"
    /\ lastCall.i > Len(employeeList) \/ lastCall.processed >= MAX_BATCH_SIZE
    /\ totalPayrollsExecuted' = totalPayrollsExecuted + 1
    /\ payrollLock' = FALSE
    /\ lastCall' = Call("executePayroll", "ok")
    /\ UNCHANGED <<trustScoring, payToken, salaryAcl, employer, employees, employeeList, pendingPayments,
                   nextPaymentId>>
    /\ UNCHANGED <<registryVars, ledgerVars, now>>

(* -------------------- payroll engine: payment management --------------- *)

\* Mutant: no final else branch; every other status passes the checks.
ReleaseCheckErrNoElse(caller, paymentId) ==
    LET p == pendingPayments[paymentId] IN
    IF p.status = "None" THEN "PaymentNotFound"
    ELSE IF p.status = "Delayed"
        THEN (IF now < p.releaseTime THEN "DelayNotElapsed" ELSE "ok")
    ELSE IF p.status = "Escrowed"
        THEN (IF caller # employer THEN "NotEmployer" ELSE "ok")
    ELSE "ok"

\* Mutant: the delay still counts as running at releaseTime itself.
ReleaseCheckErrInclusive(caller, paymentId) ==
    LET p == pendingPayments[paymentId] IN
    IF p.status = "None" THEN "PaymentNotFound"
    ELSE IF p.status = "Delayed"
        THEN (IF now <= p.releaseTime THEN "DelayNotElapsed" ELSE "ok")
    ELSE IF p.status = "Escrowed"
        THEN (IF caller # employer THEN "NotEmployer" ELSE "ok")
    ELSE "PaymentNotReleasable"

\* Mutant: the escrow check compares with the employer of construction.
ReleaseCheckErrFirstEmployer(caller, paymentId) ==
    LET p == pendingPayments[paymentId] IN
    IF p.status = "None" THEN "PaymentNotFound"
    ELSE IF p.status = "Delayed"
        THEN (IF now < p.releaseTime THEN "DelayNotElapsed" ELSE "ok")
    ELSE IF p.status = "Escrowed"
        THEN (IF caller # Employer0 THEN "NotEmployer" ELSE "ok")
    ELSE "PaymentNotReleasable"

\* Mutant: a delayed payment too is released by the employer only.
ReleaseCheckErrEmployerOnly(caller, paymentId) ==
    LET p == pendingPayments[paymentId] IN
    IF p.status = "None" THEN "PaymentNotFound"
    ELSE IF p.status = "Delayed"
        THEN (IF now < p.releaseTime THEN "DelayNotElapsed"
              ELSE IF caller # employer THEN "NotEmployer" ELSE "ok")
    ELSE IF p.status = "Escrowed"
        THEN (IF caller # employer THEN "NotEmployer" ELSE "ok")
    ELSE "PaymentNotReleasable"

\* Outcome of the status, time and caller checks of releasePayment.
ReleaseCheckErr(caller, paymentId) ==
    LET p == pendingPayments[paymentId] IN
    IF p.status = "None" THEN "PaymentNotFound"
    ELSE IF p.status = "Delayed"
        THEN (IF now < p.releaseTime THEN "DelayNotElapsed" ELSE "ok")
    ELSE IF p.status = "Escrowed"
        THEN (IF caller # employer THEN "NotEmployer" ELSE "ok")
    ELSE "PaymentNotReleasable"

\* Mutant: the transfer is made and the record is left pending.
releasePaymentKeepStatus(caller, paymentId) ==
    LET p   == pendingPayments[paymentId]
        pre == ReleaseCheckErr(caller, paymentId)
        err == IF pre = "ok" /\ ~TransferAccepted(balances, Core, p.encryptedAmount)
                 THEN "LedgerRejected" ELSE pre
    IN
    /\ lastCall' = Call("releasePayment", err)
    /\ IF err = "ok"
        THEN /\ UNCHANGED pendingPayments
             /\ balances' = confidentialTransfer(balances, Core, p.employee,
                                                 p.encryptedAmount)
        ELSE UNCHANGED <<pendingPayments, balances>>
    /\ UNCHANGED <<trustScoring, payToken, salaryAcl, employer, employees, employeeList, nextPaymentId,
                   totalPayrollsExecuted, payrollLock, totalMinted, paused>>
    /\ UNCHANGED <<registryVars, now>>

releasePayment(caller, paymentId) ==
    LET p   == pendingPayments[paymentId]
        pre == ReleaseCheckErr(caller, paymentId)
        err == IF pre = "ok" /\ ~TransferAccepted(balances, Core, p.encryptedAmount)
                 THEN "LedgerRejected" ELSE pre
    IN
    /\ lastCall' = Call("releasePayment", err)
    /\ IF err = "ok"
        THEN /\ pendingPayments' =
                    [pendingPayments EXCEPT ![paymentId].status = "Released"]
             /\ balances' = confidentialTransfer(balances, Core, p.employee,
                                                 p.encryptedAmount)
        ELSE UNCHANGED <<pendingPayments, balances>>
    /\ UNCHANGED <<trustScoring, payToken, salaryAcl, employer, employees, employeeList, nextPaymentId,
                   totalPayrollsExecuted, payrollLock, totalMinted, paused>>
    /\ UNCHANGED <<registryVars, now>>

(* ------------- payroll engine: inside a call of the ledger ------------- *)

\* The engine is inside payToken.confidentialTransfer(to, amount), called
\* from the interrupted call `outer`; `nested` is the last call made back
\* into the engine from there, and its outcome.
LedgerFrame(outer, to, amount, nested) ==
    [op |-> outer.op, err |-> "inLedger", outer |-> outer, to |-> to,
     amount |-> amount, nested |-> nested]

NoNested == [id |-> 0, err |-> "none"]

\* releasePayment up to its call of the ledger: the checks, and the status
\* written before the call.
releaseLedgerCall(caller, paymentId) ==
    LET p == pendingPayments[paymentId] IN
    /\ lastCall.err = "ok"
    /\ ReleaseCheckErr(caller, paymentId) = "ok"
    /\ pendingPayments' = [pendingPayments EXCEPT ![paymentId].status = "Released"]
    /\ lastCall' = LedgerFrame([op |-> "releasePayment", id |-> paymentId,
                                saved |-> PayrollStorage(0)],
                               p.employee, p.encryptedAmount, NoNested)
    /\ UNCHANGED <<trustScoring, payToken, salaryAcl, employer, employees,
                   employeeList, nextPaymentId, totalPayrollsExecuted, payrollLock>>
    /\ UNCHANGED <<registryVars, ledgerVars, now>>

\* The ledger returns to releasePayment: the transfer is made, or its
\* rejection reverts the call.
releaseLedgerReturn ==
    /\ lastCall.err = "inLedger"
    /\ lastCall.op = "releasePayment"
    /\ IF TransferAccepted(balances, Core, lastCall.amount)
        THEN /\ balances' = confidentialTransfer(balances, Core, lastCall.to,
                                                 lastCall.amount)
             /\ lastCall' = Call("releasePayment", "ok")
             /\ UNCHANGED <<pendingPayments, nextPaymentId, employees>>
        ELSE /\ WritePayrollStorage(lastCall.outer.saved)
             /\ lastCall' = Call("releasePayment", "LedgerRejected")
    /\ UNCHANGED <<trustScoring, payToken, salaryAcl, employer, employeeList,
                   totalPayrollsExecuted, payrollLock, totalMinted, paused>>
    /\ UNCHANGED <<registryVars, now>>

\* executePayroll up to the call of the ledger in _processInstantPayment for
\* the scored employee at hand: the tier queries have passed and the amounts
\* are computed; nothing is written yet.
payrollLedgerCall ==
    /\ lastCall.err = "running"
    /\ lastCall.i <= Len(employeeList)
    /\ lastCall.processed < MAX_BATCH_SIZE
    /\ LET emp == employees[employeeList[lastCall.i]] IN
        /\ emp.isActive
        /\ hasScore[emp.wallet]
        /\ TierQueryErr(emp.wallet) = "ok"
        /\ lastCall' = LedgerFrame(lastCall, emp.wallet,
                            RouteAmounts(emp.encryptedSalary,
                                         isHighTrust(emp.wallet),
                                         isMediumTrust(emp.wallet)).instant,
                            NoNested)
    /\ UNCHANGED <<coreVars, registryVars, ledgerVars, now>>

\* The ledger returns to _processInstantPayment: the transfer is made and
\* the rest of the iteration runs, or the rejection reverts the call.
payrollLedgerReturn ==
    /\ lastCall.err = "inLedger"
    /\ lastCall.op = "executePayroll"
    /\ LET f  == lastCall.outer
           st == PayrollIteration(f.i, PayrollStorage(f.processed))
       IN IF st.err = "ok"
            THEN /\ WritePayrollStorage(st)
                 /\ lastCall' = [f EXCEPT !.i = @ + 1, !.processed = st.processed]
                 /\ UNCHANGED payrollLock
            ELSE /\ WritePayrollStorage(f.saved)
                 /\ lastCall' = Call("executePayroll", st.err)
                 /\ payrollLock' = FALSE
    /\ UNCHANGED <<trustScoring, payToken, salaryAcl, employer, employeeList,
                   totalPayrollsExecuted, totalMinted, paused>>
    /\ UNCHANGED <<registryVars, now>>

\* A call of releasePayment made by `caller` from inside the ledger call:
\* it runs on the storage as the interrupted call has left it.
ledgerReenter(caller, paymentId) ==
    LET p   == pendingPayments[paymentId]
        pre == ReleaseCheckErr(caller, paymentId)
        err == IF pre = "ok" /\ ~TransferAccepted(balances, Core, p.encryptedAmount)
                 THEN "LedgerRejected" ELSE pre
    IN
    /\ lastCall.err = "inLedger"
    /\ lastCall' = [lastCall EXCEPT !.nested = [id |-> paymentId, err |-> err]]
    /\ IF err = "ok"
        THEN /\ pendingPayments' =
                    [pendingPayments EXCEPT ![paymentId].status = "Released"]
             /\ balances' = confidentialTransfer(balances, Core, p.employee,
                                                 p.encryptedAmount)
        ELSE UNCHANGED <<pendingPayments, balances>>
    /\ UNCHANGED <<trustScoring, payToken, salaryAcl, employer, employees,
                   employeeList, nextPaymentId, totalPayrollsExecuted,
                   payrollLock, totalMinted, paused>>
    /\ UNCHANGED <<registryVars, now>>

\* Mutant: no check that the payment is still pending.
CancelErrAnyStatus(caller, paymentId) ==
    LET p == pendingPayments[paymentId] IN
    IF caller # employer THEN "NotEmployer"
    ELSE IF p.status = "None" THEN "PaymentNotFound"
    ELSE "ok"

\* Mutant: no check that the payment exists.
CancelErrNoFoundCheck(caller, paymentId) ==
    LET p == pendingPayments[paymentId] IN
    IF caller # employer THEN "NotEmployer"
    ELSE IF p.status # "Delayed" /\ p.status # "Escrowed"
        THEN "PaymentAlreadyProcessed"
    ELSE "ok"

\* Outcome of the checks of cancelPayment.
CancelErr(caller, paymentId) ==
    LET p == pendingPayments[paymentId] IN
    IF caller # employer THEN "NotEmployer"
    ELSE IF p.status = "None" THEN "PaymentNotFound"
    ELSE IF p.status # "Delayed" /\ p.status # "Escrowed"
        THEN "PaymentAlreadyProcessed"
    ELSE "ok"

cancelPayment(caller, paymentId) ==
    LET err == CancelErr(caller, paymentId) IN
    /\ lastCall' = Call("cancelPayment", err)
    /\ IF err = "ok"
        THEN pendingPayments' =
                [pendingPayments EXCEPT ![paymentId].status = "Completed"]
        ELSE UNCHANGED pendingPayments
    /\ UNCHANGED <<trustScoring, payToken, salaryAcl, employer, employees, employeeList, nextPaymentId,
                   totalPayrollsExecuted, payrollLock>>
    /\ UNCHANGED <<registryVars, ledgerVars, now>>

\* Mutant: a delayed payment is listed only after its release time.
IsReleasableStrict(i) ==
    LET p == pendingPayments[i] IN
    \/ p.status = "Delayed" /\ now > p.releaseTime
    \/ p.status = "Escrowed"

\* The condition of both loops of getReleasablePayments.
IsReleasable(i) ==
    LET p == pendingPayments[i] IN
    \/ p.status = "Delayed" /\ now >= p.releaseTime
    \/ p.status = "Escrowed"

RECURSIVE ReleasableFrom(_)
\* The second loop of getReleasablePayments from index i on.
ReleasableFrom(i) ==
    IF i >= nextPaymentId THEN <<>>
    ELSE (IF IsReleasable(i) THEN <<i>> ELSE <<>>) \o ReleasableFrom(i + 1)

getReleasablePayments == ReleasableFrom(0)

\* The view called by anybody; the returned array is recorded.
getReleasablePaymentsQuery ==
    /\ lastCall' = [op |-> "getReleasablePayments", err |-> "ok",
                    ret |-> getReleasablePayments]
    /\ UNCHANGED <<coreVars, registryVars, ledgerVars, now>>

(* ------------------------ trust registry: writers ---------------------- *)

setOracle(caller, oracle, authorized) ==
    LET err == IF caller # Owner THEN "OwnableUnauthorizedAccount"
               ELSE IF oracle = ZERO THEN "ZeroAddress"
               ELSE "ok"
    IN
    /\ lastCall' = Call("setOracle", err)
    /\ IF err = "ok"
        THEN authorizedOracles' = [authorizedOracles EXCEPT ![oracle] = authorized]
        ELSE UNCHANGED authorizedOracles
    /\ UNCHANGED <<trustScores, hasScore, lastScoreUpdate, totalScoredAddresses>>
    /\ UNCHANGED <<coreVars, ledgerVars, now>>

\* The registry's score storage as one value.
RegistryState ==
    [trustScores |-> trustScores, hasScore |-> hasScore,
     lastScoreUpdate |-> lastScoreUpdate,
     totalScoredAddresses |-> totalScoredAddresses]

WriteRegistry(st) ==
    /\ trustScores' = st.trustScores
    /\ hasScore' = st.hasScore
    /\ lastScoreUpdate' = st.lastScoreUpdate
    /\ totalScoredAddresses' = st.totalScoredAddresses

\* Mutant: every store counts, first or not.
setScoreInCountAlways(st, account, score) ==
    [trustScores |-> [st.trustScores EXCEPT ![account] = score],
     hasScore |-> [st.hasScore EXCEPT ![account] = TRUE],
     lastScoreUpdate |-> [st.lastScoreUpdate EXCEPT ![account] = now],
     totalScoredAddresses |-> st.totalScoredAddresses + 1]

\* _setScore on the storage st: store, stamp, count a first score once.
setScoreIn(st, account, score) ==
    LET isNewScore == ~st.hasScore[account]
    IN
    [trustScores |-> [st.trustScores EXCEPT ![account] = score],
     hasScore |-> [st.hasScore EXCEPT ![account] = TRUE],
     lastScoreUpdate |-> [st.lastScoreUpdate EXCEPT ![account] = now],
     totalScoredAddresses |->
        IF isNewScore THEN st.totalScoredAddresses + 1
        ELSE st.totalScoredAddresses]

\* _setScore on the registry's own storage.
setScore(account, score) == WriteRegistry(setScoreIn(RegistryState, account, score))

\* Mutant: a value above MAX_SCORE is replaced by MAX_SCORE.
setTrustScoreClampMax(caller, account, score, proofOk) ==
    LET err == IF ~authorizedOracles[caller] THEN "UnauthorizedOracle"
               ELSE IF account = ZERO THEN "ZeroAddress"
               ELSE IF ~proofOk THEN "InvalidProof"
               ELSE "ok"
    IN
    /\ lastCall' = [op |-> "setTrustScore", err |-> err, caller |-> caller,
                    account |-> account, score |-> score, proofOk |-> proofOk]
    /\ IF err = "ok"
        THEN setScore(account, IF score > MAX_SCORE THEN MAX_SCORE ELSE score)
        ELSE UNCHANGED <<trustScores, hasScore, lastScoreUpdate,
                         totalScoredAddresses>>
    /\ UNCHANGED authorizedOracles
    /\ UNCHANGED <<coreVars, ledgerVars, now>>

\* Mutant: the registry owner passes the oracle check.
setTrustScoreOwnerToo(caller, account, score, proofOk) ==
    LET err == IF ~authorizedOracles[caller] /\ caller # Owner THEN "UnauthorizedOracle"
               ELSE IF account = ZERO THEN "ZeroAddress"
               ELSE IF ~proofOk THEN "InvalidProof"
               ELSE "ok"
        isValid == FHEle(score, MAX_SCORE)
    IN
    /\ lastCall' = [op |-> "setTrustScore", err |-> err, caller |-> caller,
                    account |-> account, score |-> score, proofOk |-> proofOk]
    /\ IF err = "ok"
        THEN setScore(account, FHEselect(isValid, score, 0))
        ELSE UNCHANGED <<trustScores, hasScore, lastScoreUpdate,
                         totalScoredAddresses>>
    /\ UNCHANGED authorizedOracles
    /\ UNCHANGED <<coreVars, ledgerVars, now>>

\* The encrypted setter: FHE.fromExternal rejects a ciphertext whose proof
\* does not verify; a value that fails the <= MAX_SCORE test is replaced by 0.
setTrustScore(caller, account, score, proofOk) ==
    LET err == IF ~authorizedOracles[caller] THEN "UnauthorizedOracle"
               ELSE IF account = ZERO THEN "ZeroAddress"
               ELSE IF ~proofOk THEN "InvalidProof"
               ELSE "ok"
        isValid == FHEle(score, MAX_SCORE)
    IN
    /\ lastCall' = [op |-> "setTrustScore", err |-> err, caller |-> caller,
                    account |-> account, score |-> score, proofOk |-> proofOk]
    /\ IF err = "ok"
        THEN setScore(account, FHEselect(isValid, score, 0))
        ELSE UNCHANGED <<trustScores, hasScore, lastScoreUpdate,
                         totalScoredAddresses>>
    /\ UNCHANGED authorizedOracles
    /\ UNCHANGED <<coreVars, ledgerVars, now>>

\* Mutant: a value above MAX_SCORE is replaced by 0, as the encrypted setter does.
setTrustScorePlaintextZero(caller, account, score) ==
    LET err == IF ~authorizedOracles[caller] THEN "UnauthorizedOracle"
               ELSE IF account = ZERO THEN "ZeroAddress"
               ELSE "ok"
    IN
    /\ lastCall' = Call("setTrustScorePlaintext", err)
    /\ IF err = "ok"
        THEN setScore(account, IF score > MAX_SCORE THEN 0 ELSE score)
        ELSE UNCHANGED <<trustScores, hasScore, lastScoreUpdate,
                         totalScoredAddresses>>
    /\ UNCHANGED authorizedOracles
    /\ UNCHANGED <<coreVars, ledgerVars, now>>

setTrustScorePlaintext(caller, account, score) ==
    LET err == IF ~authorizedOracles[caller] THEN "UnauthorizedOracle"
               ELSE IF account = ZERO THEN "ZeroAddress"
               ELSE "ok"
        clamped == IF score > MAX_SCORE THEN MAX_SCORE ELSE score
    IN
    /\ lastCall' = Call("setTrustScorePlaintext", err)
    /\ IF err = "ok"
        THEN setScore(account, clamped)
        ELSE UNCHANGED <<trustScores, hasScore, lastScoreUpdate,
                         totalScoredAddresses>>
    /\ UNCHANGED authorizedOracles
    /\ UNCHANGED <<coreVars, ledgerVars, now>>

\* Mutant: a null account is skipped and the loop goes on.
RECURSIVE BatchSetLoopSkipNull(_, _, _, _)
BatchSetLoopSkipNull(st, accounts, scores, i) ==
    IF i > Len(accounts) THEN [err |-> "ok", st |-> st]
    ELSE IF accounts[i] = ZERO THEN BatchSetLoopSkipNull(st, accounts, scores, i + 1)
    ELSE LET clamped == IF scores[i] > MAX_SCORE THEN MAX_SCORE ELSE scores[i]
         IN BatchSetLoopSkipNull(setScoreIn(st, accounts[i], clamped),
                                 accounts, scores, i + 1)

\* The loop of batchSetScores from index i on: the storage it leaves, or the
\* revert on the first null account.
RECURSIVE BatchSetLoop(_, _, _, _)
BatchSetLoop(st, accounts, scores, i) ==
    IF i > Len(accounts) THEN [err |-> "ok", st |-> st]
    ELSE IF accounts[i] = ZERO THEN [err |-> "ZeroAddress", st |-> st]
    ELSE LET clamped == IF scores[i] > MAX_SCORE THEN MAX_SCORE ELSE scores[i]
         IN BatchSetLoop(setScoreIn(st, accounts[i], clamped), accounts, scores, i + 1)

batchSetScores(caller, accounts, scores) ==
    LET run == BatchSetLoop(RegistryState, accounts, scores, 1)
        err == IF ~authorizedOracles[caller] THEN "UnauthorizedOracle"
               ELSE IF Len(accounts) # Len(scores) THEN "BatchLengthMismatch"
               ELSE run.err
    IN
    /\ lastCall' = [op |-> "batchSetScores", err |-> err, caller |-> caller,
                    accounts |-> accounts, scores |-> scores]
    /\ IF err = "ok"
        THEN WriteRegistry(run.st)
        ELSE UNCHANGED <<trustScores, hasScore, lastScoreUpdate,
                         totalScoredAddresses>>
    /\ UNCHANGED authorizedOracles
    /\ UNCHANGED <<coreVars, ledgerVars, now>>

\* Mutant: the revocation leaves the timestamp of the last update.
revokeScoreKeepStamp(caller, account) ==
    LET err == IF ~authorizedOracles[caller] THEN "UnauthorizedOracle"
               ELSE IF account = ZERO \/ ~hasScore[account] THEN "AccountNotScored"
               ELSE "ok"
    IN
    /\ lastCall' = Call("revokeScore", err)
    /\ IF err = "ok"
        THEN /\ trustScores' = [trustScores EXCEPT ![account] = 0]
             /\ hasScore' = [hasScore EXCEPT ![account] = FALSE]
             /\ totalScoredAddresses' = totalScoredAddresses - 1
             /\ UNCHANGED lastScoreUpdate
        ELSE UNCHANGED <<trustScores, hasScore, lastScoreUpdate,
                         totalScoredAddresses>>
    /\ UNCHANGED authorizedOracles
    /\ UNCHANGED <<coreVars, ledgerVars, now>>

revokeScore(caller, account) ==
    LET err == IF ~authorizedOracles[caller] THEN "UnauthorizedOracle"
               ELSE IF account = ZERO \/ ~hasScore[account] THEN "AccountNotScored"
               ELSE "ok"
    IN
    /\ lastCall' = Call("revokeScore", err)
    /\ IF err = "ok"
        THEN /\ trustScores' = [trustScores EXCEPT ![account] = 0]
             /\ hasScore' = [hasScore EXCEPT ![account] = FALSE]
             /\ lastScoreUpdate' = [lastScoreUpdate EXCEPT ![account] = 0]
             /\ totalScoredAddresses' = totalScoredAddresses - 1
        ELSE UNCHANGED <<trustScores, hasScore, lastScoreUpdate,
                         totalScoredAddresses>>
    /\ UNCHANGED authorizedOracles
    /\ UNCHANGED <<coreVars, ledgerVars, now>>

(* ------------------------ trust registry: queries ---------------------- *)

\* A tier query on `account`: the modifiers, then the value returned.
TierQuery(op, account, ret) ==
    LET err == TierQueryErr(account)
    IN
    /\ lastCall' = IF err = "ok"
                     THEN [op |-> op, err |-> err, account |-> account, ret |-> ret]
                     ELSE [op |-> op, err |-> err, account |-> account]
    /\ UNCHANGED <<coreVars, registryVars, ledgerVars, now>>

isHighTrustQuery(account) == TierQuery("isHighTrust", account, isHighTrust(account))

isMediumTrustQuery(account) == TierQuery("isMediumTrust", account, isMediumTrust(account))

isLowTrustQuery(account) == TierQuery("isLowTrust", account, isLowTrust(account))

getTrustTierQuery(account) == TierQuery("getTrustTier", account, getTrustTier(account))

\* getTrustScore: the modifier scored only.
getTrustScoreQuery(account) ==
    LET err == IF ~hasScore[account] THEN "AccountNotScored" ELSE "ok"
    IN
    /\ lastCall' = IF err = "ok"
                     THEN [op |-> "getTrustScore", err |-> err, account |-> account,
                           ret |-> trustScores[account]]
                     ELSE [op |-> "getTrustScore", err |-> err, account |-> account]
    /\ UNCHANGED <<coreVars, registryVars, ledgerVars, now>>

\* isScoreExpired: a view that never reverts.
isScoreExpiredQuery(account) ==
    /\ lastCall' = [op |-> "isScoreExpired", err |-> "ok", account |-> account,
                    ret |-> isScoreExpired(account)]
    /\ UNCHANGED <<coreVars, registryVars, ledgerVars, now>>

(* ------------------------------- ledger -------------------------------- *)

mint(caller, to, amount) ==
    LET err == IF caller # Owner THEN "OwnableUnauthorizedAccount"
               ELSE IF to = ZERO THEN "MintToZeroAddress"
               ELSE IF totalMinted + amount > MAX_SUPPLY THEN "SupplyCapExceeded"
               ELSE IF paused THEN "EnforcedPause"
               ELSE "ok"
    IN
    /\ err = "ok" => totalMinted + amount <= MaxMints * MaxSalary
    /\ lastCall' = Call("mint", err)
    /\ IF err = "ok"
        THEN /\ balances' = [balances EXCEPT ![to] = @ + amount]
             /\ totalMinted' = totalMinted + amount
        ELSE UNCHANGED <<balances, totalMinted>>
    /\ UNCHANGED paused
    /\ UNCHANGED <<coreVars, registryVars, now>>

pause(caller) ==
    LET err == IF caller # Owner THEN "OwnableUnauthorizedAccount"
               ELSE IF paused THEN "EnforcedPause"
               ELSE "ok"
    IN
    /\ lastCall' = Call("pause", err)
    /\ paused' = IF err = "ok" THEN TRUE ELSE paused
    /\ UNCHANGED <<balances, totalMinted>>
    /\ UNCHANGED <<coreVars, registryVars, now>>

unpause(caller) ==
    LET err == IF caller # Owner THEN "OwnableUnauthorizedAccount"
               ELSE IF ~paused THEN "ExpectedPause"
               ELSE "ok"
    IN
    /\ lastCall' = Call("unpause", err)
    /\ paused' = IF err = "ok" THEN FALSE ELSE paused
    /\ UNCHANGED <<balances, totalMinted>>
    /\ UNCHANGED <<coreVars, registryVars, now>>

(* ------------------------------ the clock ------------------------------ *)

\* One step of the bounded behaviour.
\* A reverted call changes no contract state, so the states reached through
\* it are reached without it: a behaviour is explored up to its first revert.
Step == lastCall.err = "ok" /\ calls < MaxCalls /\ calls' = calls + 1

AdvanceTime(points) ==
    /\ \E t \in points : t > now /\ now' = t
    /\ UNCHANGED <<coreVars, registryVars, ledgerVars, lastCall>>

Next ==
    \/ Step /\ AdvanceTime(TimePoints)
    \/ Step /\ \E c \in Callers, w \in Wallets \cup {ZERO}, s \in Salaries,
              ok \in BOOLEAN, r \in Roles : addEmployee(c, w, s, ok, r)
    \/ Step /\ \E c \in Callers, w \in Wallets \cup {ZERO}, s \in Salaries, r \in Roles :
              addEmployeePlaintext(c, w, s, r)
    \/ Step /\ \E c \in Callers, w \in Wallets : removeEmployee(c, w)
    \/ Step /\ \E c \in Callers, w \in Wallets, s \in Salaries, ok \in BOOLEAN :
              updateSalary(c, w, s, ok)
    \/ Step /\ \E c \in Callers, w \in Wallets, s \in Salaries :
              updateSalaryPlaintext(c, w, s)
    \/ Step /\ \E c \in Callers, w \in Wallets, r \in Roles : updateEmployeeRole(c, w, r)
    \/ Step /\ \E c \in Callers, e \in {ZERO, Employer0, Employer2} :
              transferEmployer(c, e)
    \/ Step /\ \E c \in Callers : executePayroll(c)
    \/ Step /\ \E c \in Callers, id \in PaymentIds : releasePayment(c, id)
    \/ Step /\ \E c \in Callers, id \in PaymentIds : cancelPayment(c, id)
    \/ Step /\ \E c \in Callers, o \in {ZERO, Oracle}, a \in BOOLEAN : setOracle(c, o, a)
    \/ Step /\ \E c \in Callers, w \in Wallets \cup {ZERO}, s \in Scores :
              setTrustScorePlaintext(c, w, s)
    \/ Step /\ \E c \in Callers, w \in Wallets : revokeScore(c, w)
    \/ Step /\ \E c \in Callers, a \in {MaxSalary} : mint(c, Core, a)
    \/ Step /\ \E c \in Callers : pause(c)
    \/ Step /\ \E c \in Callers : unpause(c)

Spec == Init /\ [][Next]_vars

(* ------------------- the payment lifecycle in depth -------------------- *)

\* A step of the unbounded specifications below (the call counter rests).
Hold == lastCall.err = "ok" /\ calls' = calls

\* Rosters of one or two employees, the first unscored or in the medium or
\* the high tier, the second unscored, with an engine that is funded or not.
InitPay ==
    \E list \in {<<"alice">>, <<"alice", "bob">>},
       a \in {-1, 40, 75},
       fund \in {0, MaxSalary} :
        SetupState(list, SetupSalary, Pair(a, -1), fund)

NextPay ==
    \/ Hold /\ AdvanceTime(DelayPoints)
    \/ Hold /\ totalPayrollsExecuted < MaxRuns
            /\ \E c \in Callers : executePayroll(c)
    \/ Hold /\ \E c \in Callers, id \in PaymentIds : releasePayment(c, id)
    \/ Hold /\ \E c \in Callers, id \in PaymentIds : cancelPayment(c, id)
    \/ Hold /\ getReleasablePaymentsQuery
    \/ Hold /\ \E c \in Callers, e \in {ZERO, Employer0, Employer2} :
                  transferEmployer(c, e)
    \/ Hold /\ \E c \in Callers : pause(c)
    \/ Hold /\ \E c \in Callers : unpause(c)

SpecPay == InitPay /\ [][NextPay]_vars

(* ---------------------- calls that fail partway ------------------------ *)

\* Two employees: the first without a score, the second in the high or the
\* medium tier; the engine funded or not.
InitAtomic ==
    \E b \in {HIGH_TRUST_THRESHOLD, MEDIUM_TRUST_THRESHOLD}, fund \in {0, MaxSalary} :
        SetupState(<<"alice", "bob">>, SetupSalary, Pair(-1, b), fund)

NextAtomic ==
    \/ Hold /\ AdvanceTime(TimePoints)
    \/ Hold /\ totalPayrollsExecuted < MaxRuns
            /\ \E c \in {Employer0, Owner} : executePayroll(c)
    \/ Hold /\ \E c \in {Employer0, Owner}, id \in PaymentIds : releasePayment(c, id)
    \/ Hold /\ pause(Owner)
    \/ Hold /\ unpause(Owner)

SpecAtomic == InitAtomic /\ [][NextAtomic]_vars

(* ------------------ executePayroll with calls from inside -------------- *)

\* The payment records a complete run writes.
IdsOfRun ==
    LET n(w) == IF ~employees[w].isActive THEN 0
                ELSE IF hasScore[w] THEN 3 ELSE 1
    IN n("alice") + n("bob")

\* Two employees: the first without a score, the second without one or in
\* the high tier; the engine funded or not.
InitReentry ==
    \E b \in {-1, HIGH_TRUST_THRESHOLD}, fund \in {0, MaxSalary} :
        SetupState(<<"alice", "bob">>, SetupSalary, Pair(-1, b), fund)

NextReentry ==
    \/ Hold /\ AdvanceTime(TimePoints)
    \/ Hold /\ \E c \in {Employer0, Owner} : removeEmployee(c, "alice")
    \/ Hold /\ pause(Owner)
    \/ /\ nextPaymentId + IdsOfRun <= MaxPayments + 1
       /\ \E c \in {Employer0, Owner} : payrollEnter(c)
       /\ UNCHANGED calls
    \/ payrollIterate /\ UNCHANGED calls
    \/ (\E c \in {Employer0, Owner} : payrollReenter(c)) /\ UNCHANGED calls
    \/ payrollAbort /\ UNCHANGED calls
    \/ payrollExit /\ UNCHANGED calls

SpecReentry == InitReentry /\ [][NextReentry]_vars

(* ------------------- calls from inside the ledger call ----------------- *)

\* One or two employees, the first unscored or in the medium or the high
\* tier, the second unscored; the engine funded or not.
InitInside ==
    \E list \in {<<"alice">>, <<"alice", "bob">>},
       a \in {-1, MEDIUM_TRUST_THRESHOLD, HIGH_TRUST_THRESHOLD},
       fund \in {0, MaxSalary} :
        SetupState(list, SetupSalary, Pair(a, -1), fund)

NextInside ==
    \/ Hold /\ AdvanceTime(DelayPoints)
    \/ /\ totalPayrollsExecuted < MaxRuns
       /\ \E c \in {Employer0, Employer2} : payrollEnter(c)
       /\ UNCHANGED calls
    \/ payrollIterate /\ UNCHANGED calls
    \/ payrollExit /\ UNCHANGED calls
    \/ payrollLedgerCall /\ UNCHANGED calls
    \/ payrollLedgerReturn /\ UNCHANGED calls
    \/ (\E c \in {Employer0, Employer2}, id \in PaymentIds : releaseLedgerCall(c, id))
            /\ UNCHANGED calls
    \/ releaseLedgerReturn /\ UNCHANGED calls
    \/ (\E c \in {Employer0, Employer2}, id \in PaymentIds : ledgerReenter(c, id))
            /\ UNCHANGED calls

SpecInside == InitInside /\ [][NextInside]_vars

(* ----------------- payroll over expired and revoked scores ------------- *)

\* Two employees: the first without a score, the second scored at
\* deployment in the high or the medium tier; the engine funded or not.
InitExpired ==
    \E b \in {HIGH_TRUST_THRESHOLD, MEDIUM_TRUST_THRESHOLD}, fund \in {0, MaxSalary} :
        SetupState(<<"alice", "bob">>, SetupSalary, Pair(-1, b), fund)

\* The clock passes the delay and the expiry window; the oracle
\* scores and revokes, the employer removes and runs the payroll, the token
\* owner pauses.
NextExpired ==
    \/ Hold /\ AdvanceTime(TimePoints)
    \/ Hold /\ \E w \in Wallets : setTrustScorePlaintext(Oracle, w, HIGH_TRUST_THRESHOLD)
    \/ Hold /\ \E w \in Wallets : revokeScore(Oracle, w)
    \/ Hold /\ \E w \in Wallets : removeEmployee(Employer0, w)
    \/ Hold /\ totalPayrollsExecuted < MaxRuns /\ executePayroll(Employer0)
    \/ Hold /\ pause(Owner)

SpecExpired == InitExpired /\ [][NextExpired]_vars

(* ---------------- payment records while the roster changes ------------- *)

\* One or two employees, the first unscored or in the medium tier, the
\* second unscored; the engine funded.
InitSnapshot ==
    \E list \in {<<"alice">>, <<"alice", "bob">>},
       a \in {-1, MEDIUM_TRUST_THRESHOLD} :
        SetupState(list, SetupSalary, Pair(a, -1), MaxSalary)

\* Payroll runs MaxRuns + 1 times if the identifiers of the model last;
\* between the runs the employer changes salaries and roles and removes employees, the
\* oracle changes and revokes scores, and payments are released and
\* cancelled: MaxCalls such calls in a behaviour.
NextSnapshot ==
    \/ Hold /\ AdvanceTime(DelayPoints)
    \/ Hold /\ totalPayrollsExecuted <= MaxRuns
            /\ nextPaymentId + IdsOfRun <= MaxPayments + 1
            /\ executePayroll(Employer0)
    \/ Step /\ \E w \in Wallets, s \in {0, MaxSalary}, ok \in BOOLEAN :
                  updateSalary(Employer0, w, s, ok)
    \/ Step /\ \E w \in Wallets, s \in {0, MaxSalary} :
                  updateSalaryPlaintext(Employer0, w, s)
    \/ Step /\ \E w \in Wallets, r \in Roles : updateEmployeeRole(Employer0, w, r)
    \/ Step /\ \E w \in Wallets : removeEmployee(Employer0, w)
    \/ Step /\ setTrustScorePlaintext(Oracle, "alice", HIGH_TRUST_THRESHOLD)
    \/ Step /\ revokeScore(Oracle, "alice")
    \/ Step /\ \E c \in {Employer0, Oracle}, id \in PaymentIds : releasePayment(c, id)
    \/ Step /\ \E id \in PaymentIds : cancelPayment(Employer0, id)

SpecSnapshot == InitSnapshot /\ [][NextSnapshot]_vars

(* ------------------ release attempts that are repeated ----------------- *)

\* One employee in the medium tier, whose run leaves a delayed payment, and
\* a funded engine.
InitLive ==
    SetupState(<<"alice">>, SetupSalary, Pair(MEDIUM_TRUST_THRESHOLD, -1), MaxSalary)

\* A caller that is neither the owner nor an employer attempts the release.
Attempt(paymentId) == releasePayment(Oracle, paymentId) /\ UNCHANGED calls

\* Calls go on after a call that reverted: a revert changes nothing but the
\* outcome recorded for the last call.  The calls that might disturb a
\* pending payment are made once a payment exists.
NextLive ==
    \/ AdvanceTime(DelayPoints) /\ UNCHANGED calls
    \/ /\ totalPayrollsExecuted < MaxRuns
       /\ nextPaymentId + IdsOfRun <= MaxPayments + 1
       /\ executePayroll(employer)
       /\ UNCHANGED calls
    \/ \E id \in PaymentIds : Attempt(id)
    \/ (\E id \in PaymentIds : cancelPayment(employer, id)) /\ UNCHANGED calls
    \/ /\ nextPaymentId > 0
       /\ UNCHANGED calls
       /\ \/ removeEmployee(employer, "alice")
          \/ updateSalaryPlaintext(employer, "alice", MaxSalary)
          \/ transferEmployer(Owner, Employer2)
          \/ setTrustScorePlaintext(Oracle, "alice", HIGH_TRUST_THRESHOLD)
          \/ revokeScore(Oracle, "alice")
    \/ pause(Owner) /\ UNCHANGED calls
    \/ unpause(Owner) /\ UNCHANGED calls

\* Some caller keeps attempting the release of every payment: an attempt
\* that stays possible is eventually made.
SpecLive ==
    InitLive /\ [][NextLive]_vars /\ \A id \in PaymentIds : WF_vars(Attempt(id))

(* ------------------------- who may call what -------------------------- *)

AccessCallers == {Owner, Employer0, Employer2}

\* Every roster, the first employee unscored or in the high tier, on an
\* engine that is funded or not.
InitAccess ==
    \E list \in Rosters, a \in {-1, HIGH_TRUST_THRESHOLD}, fund \in {0, MaxSalary} :
        SetupState(list, SetupSalary, Pair(a, -1), fund)

\* Every operation behind onlyEmployer and the three behind onlyOwner, by
\* the owner, the employer and another account, and releasePayment.  The
\* ledger and the registry are called while the engine points at the
\* deployed ones.
NextAccess ==
    \/ Step /\ \E c \in AccessCallers, w \in Wallets \cup {ZERO}, s \in Salaries,
              ok \in BOOLEAN, r \in Roles : addEmployee(c, w, s, ok, r)
    \/ Step /\ \E c \in AccessCallers, w \in Wallets \cup {ZERO}, s \in Salaries,
              r \in Roles : addEmployeePlaintext(c, w, s, r)
    \/ Step /\ \E c \in AccessCallers, w \in Wallets : removeEmployee(c, w)
    \/ Step /\ \E c \in AccessCallers, w \in Wallets, s \in Salaries, ok \in BOOLEAN :
              updateSalary(c, w, s, ok)
    \/ Step /\ \E c \in AccessCallers, w \in Wallets, s \in Salaries :
              updateSalaryPlaintext(c, w, s)
    \/ Step /\ \E c \in AccessCallers, w \in Wallets, r \in Roles :
              updateEmployeeRole(c, w, r)
    \/ Step /\ totalPayrollsExecuted < MaxRuns
            /\ trustScoring = Registry /\ payToken = Token
            /\ \E c \in AccessCallers : executePayroll(c)
    \/ Step /\ \E c \in AccessCallers, id \in PaymentIds : cancelPayment(c, id)
    \/ Step /\ payToken = Token
            /\ \E c \in AccessCallers, id \in PaymentIds : releasePayment(c, id)
    \/ Step /\ \E c \in AccessCallers, e \in {ZERO, Owner, Employer0, Employer2} :
              transferEmployer(c, e)
    \/ Step /\ \E c \in AccessCallers, a \in {ZERO, Registry, Contract2} :
              updateTrustScoring(c, a)
    \/ Step /\ \E c \in AccessCallers, a \in {ZERO, Token, Contract2} :
              updatePayToken(c, a)

SpecAccess == InitAccess /\ [][NextAccess]_vars

(* ------------------- tier routing over every score --------------------- *)

\* One employee, every salary, every score an oracle can store.
InitTiers ==
    \E sal \in Salaries, a \in 0..MAX_SCORE, fund \in {0, MaxSalary} :
        SetupState(<<"alice">>, Pair(sal, sal), Pair(a, -1), fund)

NextTiers ==
    \/ Hold /\ AdvanceTime(TimePoints)
    \/ Hold /\ \E c \in Callers : executePayroll(c)

SpecTiers == InitTiers /\ [][NextTiers]_vars

(* --------------------- a roster longer than the cap -------------------- *)

\* MAX_BATCH_SIZE + MaxExtra wallets, in the order they are added.
BatchRoster == [i \in 1..(MAX_BATCH_SIZE + MaxExtra) |-> "w" \o ToString(i)]

BatchWallets == {BatchRoster[i] : i \in DOMAIN BatchRoster}

\* The wallets the calls of this specification name: the first and the last.
BatchInputs == {BatchRoster[1], BatchRoster[Len(BatchRoster)]}

BatchPaymentIds == 0..(MaxBatchRuns * (MAX_BATCH_SIZE + 2))

\* The engine after the employer added the first n wallets of the roster
\* (salary 1 each); the second wallet has the score sc2 (-1: none), every
\* other is unscored; the engine holds no funds.
BatchState(n, sc2) ==
    LET list == SubSeq(BatchRoster, 1, n)
        scored == IF sc2 = -1 THEN {} ELSE {BatchRoster[2]}
    IN
    /\ employer = Employer0
    /\ employees = [w \in BatchWallets |->
            IF \E i \in 1..n : BatchRoster[i] = w
                THEN [wallet |-> w, encryptedSalary |-> 1,
                      isActive |-> TRUE, hireDate |-> T0,
                      lastPayDate |-> 0, role |-> "engineer"]
                ELSE NoEmployee]
    /\ employeeList = list
    /\ pendingPayments = [i \in BatchPaymentIds |-> NoPayment]
    /\ nextPaymentId = 0
    /\ totalPayrollsExecuted = 0
    /\ payrollLock = FALSE
    /\ trustScoring = Registry
    /\ payToken = Token
    /\ salaryAcl = [w \in BatchWallets |->
            IF \E i \in 1..n : BatchRoster[i] = w
                THEN {Core, Employer0, w} ELSE {}]
    /\ trustScores = [w \in BatchWallets |-> IF w \in scored THEN sc2 ELSE 0]
    /\ hasScore = [w \in BatchWallets |-> w \in scored]
    /\ authorizedOracles = [c \in Callers |-> c = Oracle /\ scored # {}]
    /\ lastScoreUpdate = [w \in BatchWallets |-> IF w \in scored THEN T0 ELSE 0]
    /\ totalScoredAddresses = Cardinality(scored)
    /\ balances = [a \in BatchWallets \cup {Core} |-> 0]
    /\ totalMinted = 0
    /\ paused = FALSE
    /\ now = T0
    /\ lastCall = Call("setup", "ok")
    /\ calls = 0

InitBatch ==
    \E n \in {MAX_BATCH_SIZE + MaxExtra - 1, MAX_BATCH_SIZE + MaxExtra},
       sc2 \in {-1, 40} :
        BatchState(n, sc2)

NextBatch ==
    \/ Hold /\ AdvanceTime({T0 + DELAY_PERIOD})
    \/ Hold /\ totalPayrollsExecuted < MaxBatchRuns
            /\ \E c \in {Employer0, Owner} : executePayroll(c)
    \/ Hold /\ \E c \in {Employer0, Owner}, w \in BatchInputs :
                  removeEmployee(c, w)
    \/ Hold /\ \E c \in {Employer0, Owner}, w \in BatchInputs :
                  addEmployeePlaintext(c, w, 1, "engineer")

SpecBatch == InitBatch /\ [][NextBatch]_vars

(* ------------------------ the registry on its own ---------------------- *)

\* The last second of the expiry window of a score set at T0, and the first
\* second after it.
ExpiryPoints == {T0 + SCORE_EXPIRY, T0 + SCORE_EXPIRY + 1}

\* A score of the medium tier, the largest score, and two scores above it.
RegistryScores == {MEDIUM_TRUST_THRESHOLD, MAX_SCORE, MAX_SCORE + 1, MaxScoreInput}

\* Arguments of setTrustScore: every oracle candidate on every wallet with a
\* valid proof, and one call for each way the call can fail.
EncryptedInputs ==
    ({Oracle, Owner} \X Wallets \X RegistryScores \X {TRUE})
        \cup {<<Employer0, "alice", MaxScoreInput, TRUE>>,
               <<Oracle, ZERO, MaxScoreInput, TRUE>>,
               <<Oracle, "alice", MaxScoreInput, FALSE>>}

\* Arguments of batchSetScores: the empty batch, one and two accounts with
\* scores on both sides of MAX_SCORE, an account listed twice, a null
\* account after a valid one, and arrays of different lengths.
Batches ==
    {<<<<>>, <<>>>>}
        \cup {<<<<"alice">>, <<s>>>> : s \in {MAX_SCORE, MaxScoreInput}}
        \cup {<<<<"alice", "bob">>, <<s, t>>>> :
                    s \in {MEDIUM_TRUST_THRESHOLD, MaxScoreInput},
                    t \in {MAX_SCORE, MAX_SCORE + 1}}
        \cup {<<<<"bob", "bob">>, <<MaxScoreInput, MEDIUM_TRUST_THRESHOLD>>>>,
               <<<<"alice", ZERO>>, <<MaxScoreInput, MAX_SCORE>>>>,
               <<<<"alice">>, <<>>>>}

\* The registry right after construction: no oracle, no score.
InitRegistry == SetupState(<<>>, SetupSalary, Pair(-1, -1), 0)

NextRegistry ==
    \/ Hold /\ AdvanceTime(ExpiryPoints)
    \/ Hold /\ \E c \in {Owner, Oracle}, o \in {ZERO, Oracle, Owner}, a \in BOOLEAN :
                  setOracle(c, o, a)
    \/ Hold /\ \E a \in EncryptedInputs : setTrustScore(a[1], a[2], a[3], a[4])
    \/ Hold /\ \E c \in {Oracle, Employer0}, w \in Wallets \cup {ZERO},
                  s \in RegistryScores : setTrustScorePlaintext(c, w, s)
    \/ Hold /\ \E c \in {Oracle, Employer0}, b \in Batches : batchSetScores(c, b[1], b[2])
    \/ Hold /\ \E c \in {Oracle, Owner}, w \in Wallets : revokeScore(c, w)
    \/ Hold /\ \E w \in Wallets : isHighTrustQuery(w)
    \/ Hold /\ \E w \in Wallets : isMediumTrustQuery(w)
    \/ Hold /\ \E w \in Wallets : isLowTrustQuery(w)
    \/ Hold /\ \E w \in Wallets : getTrustTierQuery(w)
    \/ Hold /\ \E w \in Wallets : getTrustScoreQuery(w)

SpecRegistry == InitRegistry /\ [][NextRegistry]_vars

(* ------------------ the encrypted setter on every value --------------- *)

\* Arguments of setTrustScore: the oracle submits every value up to
\* MaxScoreInput, and the largest value of the modelled width, for a subject
\* without a score; it overwrites the score of the other subject with an
\* out-of-range value; and one call for each way the call can fail.
AllEncryptedInputs ==
    ({Oracle} \X {"bob"} \X (0..MaxScoreInput \cup {UintMod - 1}) \X {TRUE})
        \cup {<<Oracle, "alice", MaxScoreInput, TRUE>>,
               <<Employer0, "bob", MaxScoreInput, TRUE>>,
               <<Oracle, ZERO, MaxScoreInput, TRUE>>,
               <<Oracle, "bob", MaxScoreInput, FALSE>>}

\* The oracle is authorised and has given one subject a medium score.
InitEncrypted == SetupState(<<>>, SetupSalary, Pair(MEDIUM_TRUST_THRESHOLD, -1), 0)

NextEncrypted ==
    \/ Hold /\ AdvanceTime(ExpiryPoints)
    \/ Hold /\ \E a \in AllEncryptedInputs : setTrustScore(a[1], a[2], a[3], a[4])
    \/ Hold /\ \E c \in {Oracle, Employer0}, w \in Wallets : revokeScore(c, w)

SpecEncrypted == InitEncrypted /\ [][NextEncrypted]_vars

(* -------------------------- the expiry window -------------------------- *)

\* Instants 80, 89, 90, 91, 160 and 171 days after deployment, and the first
\* second after the 90th day.
ExpiryDayPoints ==
    {T0 + d * (SCORE_EXPIRY \div 90) : d \in {80, 89, 90, 91, 160, 171}}
        \cup {T0 + SCORE_EXPIRY + 1}

NextExpiry ==
    \/ Hold /\ AdvanceTime(ExpiryDayPoints)
    \/ Hold /\ \E c \in {Oracle, Employer0}, w \in Wallets :
                  setTrustScorePlaintext(c, w, MEDIUM_TRUST_THRESHOLD)
    \/ Hold /\ \E w \in Wallets : revokeScore(Oracle, w)
    \/ Hold /\ \E w \in Wallets : isScoreExpiredQuery(w)

\* From the state in which the oracle has scored one subject at deployment.
SpecExpiry == InitEncrypted /\ [][NextExpiry]_vars

(* ---------------------- tier queries over every score ------------------ *)

\* One subject with each score an oracle can store, one without a score.
InitQueries ==
    \E a \in 0..MAX_SCORE : SetupState(<<>>, SetupSalary, Pair(a, -1), 0)

NextQueries ==
    \/ Hold /\ AdvanceTime(ExpiryPoints)
    \/ Hold /\ \E w \in Wallets : isHighTrustQuery(w)
    \/ Hold /\ \E w \in Wallets : isMediumTrustQuery(w)
    \/ Hold /\ \E w \in Wallets : isLowTrustQuery(w)
    \/ Hold /\ \E w \in Wallets : getTrustTierQuery(w)

SpecQueries == InitQueries /\ [][NextQueries]_vars
(* ======================================================================= *)
(*                               the claims                                *)
(* ======================================================================= *)

Status(id) == pendingPayments[id].status

Amount(id) == pendingPayments[id].encryptedAmount

NonZero(amounts) == Cardinality({i \in DOMAIN amounts : amounts[i] # 0})

\* The step is a successful executePayroll.
PayrollDone ==
    /\ lastCall' = Call("executePayroll", "ok")
    /\ totalPayrollsExecuted' = totalPayrollsExecuted + 1

\* Ids assigned by the step.
NewIds ==
    {id \in DOMAIN pendingPayments :
        nextPaymentId <= id /\ id < nextPaymentId'}

\* The active employees a run processes, in list order.
ActiveList == SelectSeq(employeeList, LAMBDA w : employees[w].isActive)

Batch ==
    LET n == IF Len(ActiveList) < 50 THEN Len(ActiveList) ELSE 50
    IN {ActiveList[i] : i \in 1..n}

\* The first id the step assigned to employee w.
FirstIdOf(w) ==
    CHOOSE id \in NewIds :
        /\ pendingPayments'[id].employee = w
        /\ \A j \in NewIds : pendingPayments'[j].employee = w => id <= j

\* The three amounts the step recorded for scored employee w.
Triple(w) ==
    <<pendingPayments'[FirstIdOf(w)].encryptedAmount,
      pendingPayments'[FirstIdOf(w) + 1].encryptedAmount,
      pendingPayments'[FirstIdOf(w) + 2].encryptedAmount>>

\* The step recorded an Instant, a Delayed and an Escrowed record for w.
HasTriple(w) ==
    /\ \E id \in NewIds : pendingPayments'[id].employee = w
    /\ FirstIdOf(w) + 2 \in NewIds
    /\ pendingPayments'[FirstIdOf(w)].status = "Instant"
    /\ pendingPayments'[FirstIdOf(w) + 1].status = "Delayed"
    /\ pendingPayments'[FirstIdOf(w) + 2].status = "Escrowed"
    /\ pendingPayments'[FirstIdOf(w) + 1].employee = w
    /\ pendingPayments'[FirstIdOf(w) + 2].employee = w

\* C1: in every successful executePayroll, for every processed employee with
\* a live score (every salary, every score 0..100), the instant, delayed and
\* escrow amounts recorded have at most one nonzero member and sum exactly to
\* the employee's salary.
C1_RoutingExclusive ==
    [][PayrollDone =>
        \A w \in Batch : hasScore[w] =>
            /\ HasTriple(w)
            /\ NonZero(Triple(w)) <= 1
            /\ Triple(w)[1] + Triple(w)[2] + Triple(w)[3]
                    = employees[w].encryptedSalary]_vars

\* A payroll run has routed a positive salary of a medium-trust employee.
C1_Witness ==
    /\ lastCall = Call("executePayroll", "ok")
    /\ \E id \in PaymentIds :
        /\ Status(id) = "Instant" /\ Amount(id) = 0
        /\ Status(id + 1) = "Delayed" /\ Amount(id + 1) > 0
        /\ Status(id + 2) = "Escrowed" /\ Amount(id + 2) = 0

\* C2: in a successful executePayroll a scored employee's full salary is on
\* the path of the tier: score >= 75 in the Instant record and transferred to
\* the employee in the same call; 40..74 in the Delayed record, no transfer;
\* below 40 in the Escrowed record, no transfer; the other two records are 0.
C2_TierPath ==
    [][PayrollDone =>
        \A w \in Batch : hasScore[w] =>
            LET sal == employees[w].encryptedSalary
                s   == trustScores[w]
            IN
            /\ HasTriple(w)
            /\ s >= 75 =>
                    /\ Triple(w) = <<sal, 0, 0>>
                    /\ balances'[w] = balances[w] + sal
            /\ (s >= 40 /\ s < 75) =>
                    /\ Triple(w) = <<0, sal, 0>>
                    /\ balances'[w] = balances[w]
            /\ s < 40 =>
                    /\ Triple(w) = <<0, 0, sal>>
                    /\ balances'[w] = balances[w]]_vars

\* A run has paid a positive salary instantly.
C2_Witness ==
    /\ lastCall = Call("executePayroll", "ok")
    /\ \E id \in PaymentIds :
        /\ Status(id) = "Instant" /\ Amount(id) > 0
        /\ balances[pendingPayments[id].employee] = Amount(id)
        /\ trustScores[pendingPayments[id].employee] >= 75

Existing(pp) == {id \in PaymentIds : pp[id].status # "None"}

\* C3: a successful executePayroll increases nextPaymentId by exactly
\* (processed unscored employees) + 3 * (processed scored employees) and
\* creates exactly that many records; no other operation changes
\* nextPaymentId.
C3_IdCount ==
    [][LET unscored == Cardinality({w \in Batch : ~hasScore[w]})
           scored   == Cardinality({w \in Batch : hasScore[w]})
       IN IF PayrollDone
            THEN /\ nextPaymentId' = nextPaymentId + unscored + 3 * scored
                 /\ Cardinality(Existing(pendingPayments'))
                        = Cardinality(Existing(pendingPayments))
                            + unscored + 3 * scored
                 /\ Existing(pendingPayments) \subseteq Existing(pendingPayments')
            ELSE nextPaymentId' = nextPaymentId]_vars

\* A run has processed one scored and one unscored employee.
C3_Witness ==
    /\ lastCall = Call("executePayroll", "ok")
    /\ nextPaymentId = 4
    /\ totalPayrollsExecuted = 1
    /\ \E w \in Wallets : hasScore[w] /\ employees[w].isActive
    /\ \E w \in Wallets : ~hasScore[w] /\ employees[w].isActive

Pending == {"Delayed", "Escrowed"}

\* The step is the call releasePayment(paymentId) by caller.
Releases(caller, paymentId) ==
    /\ lastCall'.op = "releasePayment"
    /\ releasePayment(caller, paymentId)

\* The step is the call cancelPayment(paymentId) by caller.
Cancels(caller, paymentId) ==
    /\ lastCall'.op = "cancelPayment"
    /\ cancelPayment(caller, paymentId)


\* C4: a payment's status only moves forward: None to Instant, Delayed or
\* Escrowed (executePayroll), Delayed or Escrowed to Released
\* (releasePayment), Delayed or Escrowed to Completed (cancelPayment); a
\* Released or Completed record never changes again, and the passing of time
\* alone changes no status.
C4_StatusForward ==
    [][/\ now' # now => pendingPayments' = pendingPayments
       /\ \A id \in PaymentIds :
            LET a == pendingPayments[id].status
                b == pendingPayments'[id].status
            IN
            /\ a \in {"Released", "Completed"} =>
                    pendingPayments'[id] = pendingPayments[id]
            /\ a # b =>
                \/ /\ a = "None" /\ b \in {"Instant", "Delayed", "Escrowed"}
                   /\ lastCall' = Call("executePayroll", "ok")
                \/ /\ a \in Pending /\ b = "Released"
                   /\ lastCall' = Call("releasePayment", "ok")
                \/ /\ a \in Pending /\ b = "Completed"
                   /\ lastCall' = Call("cancelPayment", "ok")]_vars

\* The only record was released, and a later cancel of it was refused.
C4_Witness ==
    /\ nextPaymentId = 1
    /\ Status(0) = "Released"
    /\ lastCall = Call("cancelPayment", "PaymentAlreadyProcessed")

\* The payments part of the state and the ledger are as before the step.
NothingMoved == UNCHANGED <<pendingPayments, nextPaymentId, balances>>

\* C5: a record created Instant stays Instant: for every caller
\* releasePayment on it fails with PaymentNotReleasable, cancelPayment by the
\* employer fails with PaymentAlreadyProcessed, and its amount is not
\* transferred a second time.
C5_InstantFinal ==
    [][\A id \in PaymentIds : Status(id) = "Instant" =>
        /\ pendingPayments'[id] = pendingPayments[id]
        /\ \A c \in Callers :
            /\ Releases(c, id) =>
                /\ lastCall' = Call("releasePayment", "PaymentNotReleasable")
                /\ NothingMoved
            /\ (c = employer /\ Cancels(c, id)) =>
                /\ lastCall' = Call("cancelPayment", "PaymentAlreadyProcessed")
                /\ NothingMoved]_vars

\* A release was refused as not releasable while every record that is
\* neither Delayed nor Escrowed is an Instant one.
C5_Witness ==
    /\ lastCall = Call("releasePayment", "PaymentNotReleasable")
    /\ \E id \in PaymentIds : Status(id) = "Instant" /\ Amount(id) > 0
    /\ \A id \in PaymentIds : Status(id) \notin {"Released", "Completed"}

\* The ledger moves `amount` out of the engine's balance.
LedgerAccepts(amount) == ~paused /\ balances[Core] >= amount

\* The step released record id and paid its amount to its employee.
ReleasedAndPaid(id) ==
    LET p == pendingPayments[id] IN
    /\ lastCall' = Call("releasePayment", "ok")
    /\ pendingPayments' = [pendingPayments EXCEPT ![id].status = "Released"]
    /\ balances'[p.employee] = balances[p.employee] + p.encryptedAmount
    /\ balances'[Core] = balances[Core] - p.encryptedAmount

C7_EscrowRelease ==
    [][/\ \A e \in {Employer0, Employer2} :
            (lastCall'.op = "transferEmployer" /\ transferEmployer(Owner, e))
                => employer' = e
       /\ \A id \in PaymentIds : Status(id) = "Escrowed" =>
            \A c \in Callers : Releases(c, id) =>
                IF c # employer
                    THEN /\ lastCall' = Call("releasePayment", "NotEmployer")
                         /\ NothingMoved
                ELSE IF LedgerAccepts(Amount(id))
                    THEN ReleasedAndPaid(id)
                    ELSE /\ lastCall'.err \notin {"ok", "NotEmployer"}
                         /\ NothingMoved]_vars

\* After a transfer of the employer role an escrowed payment of a positive
\* amount was released (so by the new employer).
C7_Witness ==
    /\ employer = Employer2
    /\ lastCall = Call("releasePayment", "ok")
    /\ \E id \in PaymentIds :
        /\ Status(id) = "Released"
        /\ pendingPayments[id].milestone = EscrowMilestone
        /\ Amount(id) > 0
    /\ \A id \in PaymentIds :
        Status(id) = "Released" => pendingPayments[id].milestone = EscrowMilestone

\* C8: cancelPayment by the employer sets a Delayed or Escrowed record to
\* Completed and moves no funds; afterwards releasePayment on it fails with
\* PaymentNotReleasable and cancelPayment with PaymentAlreadyProcessed;
\* cancelPayment on a Released record fails with PaymentAlreadyProcessed and
\* on an id never created with PaymentNotFound.
C8_Cancel ==
    [][\A id \in PaymentIds :
        /\ (Status(id) \in Pending /\ Cancels(employer, id)) =>
            /\ lastCall' = Call("cancelPayment", "ok")
            /\ pendingPayments' =
                    [pendingPayments EXCEPT ![id].status = "Completed"]
            /\ balances' = balances
        /\ Status(id) = "Completed" =>
            /\ \A c \in Callers : Releases(c, id) =>
                /\ lastCall' = Call("releasePayment", "PaymentNotReleasable")
                /\ NothingMoved
            /\ Cancels(employer, id) =>
                /\ lastCall' = Call("cancelPayment", "PaymentAlreadyProcessed")
                /\ NothingMoved
        /\ (Status(id) = "Released" /\ Cancels(employer, id)) =>
            /\ lastCall' = Call("cancelPayment", "PaymentAlreadyProcessed")
            /\ NothingMoved
        /\ (id >= nextPaymentId /\ Cancels(employer, id)) =>
            /\ lastCall' = Call("cancelPayment", "PaymentNotFound")
            /\ NothingMoved]_vars

\* The only record was cancelled, and a release of it was then refused.
C8_Witness ==
    /\ nextPaymentId = 1
    /\ Status(0) = "Completed"
    /\ Amount(0) > 0
    /\ lastCall = Call("releasePayment", "PaymentNotReleasable")

\* Wallet w has been added (its record carries its address).
Added(w) == employees[w].wallet # ZERO

\* Wallet w has been added and then removed.
Removed(w) == Added(w) /\ ~employees[w].isActive

\* The step is a call of addEmployee or addEmployeePlaintext for wallet w
\* by caller c.
Adds(c, w) ==
    \/ /\ lastCall'.op = "addEmployee"
       /\ \E s \in Salaries, ok \in BOOLEAN, r \in Roles :
            addEmployee(c, w, s, ok, r)
    \/ /\ lastCall'.op = "addEmployeePlaintext"
       /\ \E s \in Salaries, r \in Roles : addEmployeePlaintext(c, w, s, r)

\* The roster part of the state is as before the step.
RosterSame == UNCHANGED <<employees, employeeList>>

\* C9: addEmployee and addEmployeePlaintext fail with EmployeeAlreadyExists
\* for every wallet that was ever added, removed ones included (no caller
\* can add it again); an added wallet stays added and stays once in the
\* list; a removed employee never becomes active again.
C9_NoReAdd ==
    [][\A w \in Wallets :
        /\ Added(w) <=> \E i \in 1..Len(employeeList) : employeeList[i] = w
        /\ Added(w) =>
            /\ employees'[w].wallet = w
            /\ Cardinality({i \in 1..Len(employeeList') : employeeList'[i] = w}) = 1
            /\ \A c \in Callers : Adds(c, w) =>
                /\ lastCall'.err # "ok"
                /\ c = employer => lastCall'.err = "EmployeeAlreadyExists"
                /\ RosterSame
        /\ Removed(w) => ~employees'[w].isActive]_vars

\* Every added wallet has been removed, and an add was then refused as a
\* duplicate.
C9_Witness ==
    /\ \E w \in Wallets : Removed(w)
    /\ \A w \in Wallets : Added(w) => Removed(w)
    /\ lastCall.op \in {"addEmployee", "addEmployeePlaintext"}
    /\ lastCall.err = "EmployeeAlreadyExists"

\* The step is one of the four calls that require an active employee, made
\* by caller c for wallet w.
Maintains(c, w) ==
    \/ lastCall'.op = "removeEmployee" /\ removeEmployee(c, w)
    \/ /\ lastCall'.op = "updateSalary"
       /\ \E s \in Salaries, ok \in BOOLEAN : updateSalary(c, w, s, ok)
    \/ /\ lastCall'.op = "updateSalaryPlaintext"
       /\ \E s \in Salaries : updateSalaryPlaintext(c, w, s)
    \/ /\ lastCall'.op = "updateEmployeeRole"
       /\ \E r \in Roles : updateEmployeeRole(c, w, r)

\* C10: removal is a soft delete: removeEmployee by the employer sets
\* isActive to false and leaves the wallet field, the employee list and the
\* employee count unchanged; removeEmployee, updateSalary,
\* updateSalaryPlaintext and updateEmployeeRole by the employer fail with
\* EmployeeNotFound for a wallet never added and with EmployeeNotActive for
\* a removed one, changing nothing.
C10_SoftDelete ==
    [][\A w \in Wallets :
        /\ (Added(w) /\ employees[w].isActive
                /\ lastCall'.op = "removeEmployee" /\ removeEmployee(employer, w)) =>
            /\ lastCall'.err = "ok"
            /\ employees' = [employees EXCEPT ![w].isActive = FALSE]
            /\ employees'[w].wallet = w
            /\ employeeList' = employeeList
            /\ Len(employeeList') = Len(employeeList)
        /\ (~Added(w) /\ Maintains(employer, w)) =>
            /\ lastCall'.err = "EmployeeNotFound"
            /\ RosterSame
        /\ (Removed(w) /\ Maintains(employer, w)) =>
            /\ lastCall'.err = "EmployeeNotActive"
            /\ RosterSame]_vars

\* A salary update of a removed employee, still in the list, was refused.
C10_Witness ==
    /\ lastCall \in {Call("updateSalary", "EmployeeNotActive"),
                     Call("updateSalaryPlaintext", "EmployeeNotActive")}
    /\ \E w \in Wallets :
        /\ Removed(w)
        /\ \E i \in 1..Len(employeeList) : employeeList[i] = w

\* Position of wallet w in the employee list.
Pos(w) == CHOOSE i \in 1..Len(employeeList) : employeeList[i] = w

\* Number of active employees listed before wallet w.
ActiveBefore(w) ==
    Cardinality({i \in 1..(Pos(w) - 1) : employees[employeeList[i]].isActive})

\* The wallets the step created a record for.
Recorded == {pendingPayments'[id].employee : id \in NewIds}

\* C11: a successful executePayroll processes exactly the first
\* min(50, number of active employees) active employees in insertion order
\* of the employee list; inactive employees are skipped, receive no record
\* and do not count toward the cap; the processed count reported equals
\* that number.
C11_BatchCap ==
    [][PayrollDone =>
        /\ Recorded = Batch
        /\ \A w \in Batch : employees'[w].lastPayDate = now
        /\ \A i \in NewIds :
            i + 1 \in NewIds =>
                Pos(pendingPayments'[i].employee)
                    <= Pos(pendingPayments'[i + 1].employee)
        /\ \A w \in DOMAIN employees :
            ~employees[w].isActive => w \notin Recorded
        /\ PayrollRun.processed
                = (IF Len(ActiveList) < 50 THEN Len(ActiveList) ELSE 50)
        /\ PayrollRun.processed = Cardinality(Recorded)]_vars

\* A run over a roster of more than 50 active employees, with a removed one
\* among the first 50, has paid exactly 50 of them: the removed one was
\* passed over, the 51st listed was paid and the last one was not.
C11_Witness ==
    /\ lastCall = Call("executePayroll", "ok")
    /\ totalPayrollsExecuted = 1
    /\ Len(ActiveList) > 50
    /\ ~employees[BatchRoster[1]].isActive
    /\ employees[BatchRoster[1]].lastPayDate = 0
    /\ employees[BatchRoster[51]].lastPayDate = now
    /\ employees[employeeList[Len(employeeList)]].isActive
    /\ employees[employeeList[Len(employeeList)]].lastPayDate = 0

\* C12: an active employee with at least 50 active employees before it in
\* the employee list is processed by no executePayroll call (no record is
\* created for it, its lastPayDate stays) while those earlier employees
\* remain active, however many times payroll is run.
C12_BeyondCap ==
    [][(employees' # employees \/ nextPaymentId' # nextPaymentId) =>
        \A w \in DOMAIN employees :
            (employees[w].wallet # ZERO /\ employees[w].isActive
                /\ ActiveBefore(w) >= 50) =>
                /\ employees'[w].lastPayDate = employees[w].lastPayDate
                /\ w \notin Recorded]_vars

\* Payroll has run twice, at two different times, over a roster on which an
\* active employee has 50 active employees before it and was never paid.
C12_Witness ==
    /\ totalPayrollsExecuted = 2
    /\ lastCall = Call("executePayroll", "ok")
    /\ \E w \in DOMAIN employees :
        /\ employees[w].wallet # ZERO /\ employees[w].isActive
        /\ ActiveBefore(w) >= 50
        /\ employees[w].lastPayDate = 0
    /\ employees[BatchRoster[3]].lastPayDate = now
    /\ now > T0
    /\ \E id \in DOMAIN pendingPayments :
        Status(id) # "None" /\ pendingPayments[id].createdAt = T0

NewIdsOf(w) == {id \in NewIds : pendingPayments'[id].employee = w}

\* C14: for an active employee with no trust score a successful
\* executePayroll creates exactly one payment record: status Escrowed,
\* milestone "Pending employer approval", releaseTime 0, amount the
\* employee's full current salary; it transfers nothing to that employee.
C14_UnscoredEscrow ==
    [][PayrollDone =>
        \A w \in Batch : ~hasScore[w] =>
            /\ Cardinality(NewIdsOf(w)) = 1
            /\ \A id \in NewIdsOf(w) :
                pendingPayments'[id] =
                    [id |-> id, employee |-> w,
                     encryptedAmount |-> employees[w].encryptedSalary,
                     status |-> "Escrowed", createdAt |-> now,
                     releaseTime |-> 0,
                     milestone |-> "Pending employer approval"]
            /\ balances'[w] = balances[w]]_vars

\* After a salary update, a run has escrowed the new salary of an unscored
\* employee in its only record.
C14_Witness ==
    /\ lastCall = Call("executePayroll", "ok")
    /\ nextPaymentId = 1
    /\ Status(0) = "Escrowed"
    /\ ~hasScore[pendingPayments[0].employee]
    /\ Amount(0) = MaxSalary
    /\ pendingPayments[0].employee = "alice"
    /\ employees["alice"].encryptedSalary = MaxSalary

\* The step is a call (not a clock advance) of executePayroll that
\* succeeded.
PayrollSucceeds ==
    /\ now' = now
    /\ calls' # calls
    /\ lastCall' = Call("executePayroll", "ok")

\* C15: totalPayrollsExecuted counts the executePayroll calls that
\* succeeded: each of them, one that processes zero employees included,
\* increases it by exactly 1; a failed call, and every other operation,
\* leaves it unchanged.
C15_RunCounter ==
    [][totalPayrollsExecuted' =
            IF PayrollSucceeds THEN totalPayrollsExecuted + 1
            ELSE totalPayrollsExecuted]_vars

\* A run over a roster whose employees are all removed succeeded, created
\* no record and was counted.
C15_Witness ==
    /\ lastCall = Call("executePayroll", "ok")
    /\ totalPayrollsExecuted = 1
    /\ nextPaymentId = 0
    /\ Len(employeeList) > 0
    /\ \A i \in 1..Len(employeeList) : ~employees[employeeList[i]].isActive
(* ----------------------------- C16 .. C20 ------------------------------ *)

\* A step that is the successful call of `op` (the clock rests during a call).
CallStep(op) == now' = now /\ lastCall'.op = op /\ lastCall'.err = "ok"

\* The step is a successful setter call that writes the score of w.
SetBy(w) ==
    \/ CallStep("setTrustScore") /\ lastCall'.account = w
    \/ /\ CallStep("setTrustScorePlaintext")
       /\ \E c \in Callers, s \in RegistryScores : setTrustScorePlaintext(c, w, s)
    \/ /\ CallStep("batchSetScores")
       /\ \E i \in DOMAIN lastCall'.accounts : lastCall'.accounts[i] = w

\* The step is a successful revokeScore(w).
Revoked(w) ==
    CallStep("revokeScore") /\ \E c \in Callers : revokeScore(c, w)

ScoredSet == {w \in Wallets : hasScore[w]}

\* C16: in every reachable state and for every subject, hasScore is true
\* exactly when lastScoreUpdate is nonzero; a successful revokeScore resets
\* both, and a successful call of any setter sets both.
C16_ScoredIffStamped ==
    /\ [](\A w \in Wallets : hasScore[w] <=> lastScoreUpdate[w] # 0)
    /\ [][\A w \in Wallets :
            /\ Revoked(w) => ~hasScore'[w] /\ lastScoreUpdate'[w] = 0
            /\ SetBy(w) => hasScore'[w] /\ lastScoreUpdate'[w] = now /\ now # 0]_vars

\* A revocation has cleared one subject while another, scored earlier, keeps
\* its flag and its timestamp.
C16_Witness ==
    /\ lastCall = Call("revokeScore", "ok")
    /\ now > T0
    /\ \E w, v \in Wallets :
        /\ ~hasScore[w] /\ lastScoreUpdate[w] = 0
        /\ hasScore[v] /\ lastScoreUpdate[v] = T0

\* C17: totalScoredAddresses is the number of subjects whose hasScore is
\* true, and never negative; a step changes it by the number of unscored
\* subjects a successful setter scores, minus one for a successful
\* revokeScore, so an update of a scored subject, by whichever oracle, and
\* every other step leave it unchanged.
C17_LiveCounter ==
    /\ [](totalScoredAddresses = Cardinality(ScoredSet) /\ totalScoredAddresses >= 0)
    /\ [][totalScoredAddresses' =
                totalScoredAddresses
                    + Cardinality({w \in Wallets : SetBy(w) /\ ~hasScore[w]})
                    - Cardinality({w \in Wallets : Revoked(w)})]_vars

\* A revocation has taken the counter from two to one; the subject that is
\* left was scored or updated after the deployment block.
C17_Witness ==
    /\ lastCall = Call("revokeScore", "ok")
    /\ totalScoredAddresses = 1
    /\ now = T0 + SCORE_EXPIRY + 1
    /\ \E w, v \in Wallets :
        /\ ~hasScore[w]
        /\ hasScore[v] /\ lastScoreUpdate[v] = T0 + SCORE_EXPIRY

\* C18: a query of isHighTrust, isMediumTrust or isLowTrust on a subject
\* with a score s in 0..100 that is not expired succeeds and returns true
\* exactly when s >= 75, s >= 40 and s < 40 respectively.
C18_Thresholds ==
    [][now' = now /\ lastCall'.op \in {"isHighTrust", "isMediumTrust", "isLowTrust"} =>
        LET w == lastCall'.account
            s == trustScores[w]
        IN
        hasScore[w] /\ now <= lastScoreUpdate[w] + 7776000 /\ s \in 0..100 =>
            /\ lastCall'.err = "ok"
            /\ lastCall'.ret =
                    CASE lastCall'.op = "isHighTrust" -> s >= 75
                      [] lastCall'.op = "isMediumTrust" -> s >= 40
                      [] lastCall'.op = "isLowTrust" -> s < 40]_vars

\* In the last second of its validity a score of 40 has been found not low.
C18_Witness ==
    /\ lastCall.op = "isLowTrust" /\ lastCall.err = "ok"
    /\ lastCall.ret = FALSE
    /\ trustScores[lastCall.account] = 40
    /\ now = lastScoreUpdate[lastCall.account] + SCORE_EXPIRY

\* What the four tier queries return for w.
Class(w) == <<isHighTrust(w), isMediumTrust(w), isLowTrust(w), getTrustTier(w)>>

\* The classification of a score of exactly 100, and of a score of 0.
TopClass == <<TRUE, TRUE, FALSE, 2>>

BottomClass == <<FALSE, FALSE, TRUE, 0>>

\* The step is a successful setTrustScore(w, s).
EncryptedSet(w, s) ==
    CallStep("setTrustScore") /\ lastCall'.account = w /\ lastCall'.score = s

\* The step is a successful setTrustScorePlaintext(w, s).
PlaintextSet(w, s) ==
    /\ CallStep("setTrustScorePlaintext")
    /\ \E c \in Callers : setTrustScorePlaintext(c, w, s)

\* The step is a successful batchSetScores whose last pair for w carries s.
BatchSet(w, s) ==
    /\ CallStep("batchSetScores")
    /\ \E i \in DOMAIN lastCall'.accounts :
        /\ lastCall'.accounts[i] = w /\ lastCall'.scores[i] = s
        /\ \A j \in DOMAIN lastCall'.accounts : j > i => lastCall'.accounts[j] # w

\* C19 as stated: through each of the three setters, a score of 100 or more
\* leaves the subject with the classification of a score of 100.
C19_AsStated ==
    [][\A w \in Wallets, s \in RegistryScores :
        s >= 100 /\ (EncryptedSet(w, s) \/ PlaintextSet(w, s) \/ BatchSet(w, s)) =>
            TierQueryErr(w)' = "ok" /\ Class(w)' = TopClass]_vars

\* C19, amended: through setTrustScorePlaintext and batchSetScores a score of
\* 100 or more leaves the subject with the classification of a score of 100;
\* through setTrustScore a score of 100 does, and a score above 100 leaves
\* the classification of a score of 0.
C19_PlaintextClamp ==
    [][\A w \in Wallets, s \in RegistryScores :
        /\ s >= 100 /\ (PlaintextSet(w, s) \/ BatchSet(w, s)) =>
                TierQueryErr(w)' = "ok" /\ Class(w)' = TopClass
        /\ s >= 100 /\ EncryptedSet(w, s) =>
                /\ TierQueryErr(w)' = "ok"
                /\ Class(w)' = IF s = 100 THEN TopClass ELSE BottomClass]_vars

\* One batch has set 150 for one subject and 101 for the other; both hold 100.
C19_Witness ==
    /\ lastCall.op = "batchSetScores" /\ lastCall.err = "ok"
    /\ lastCall.accounts = <<"alice", "bob">>
    /\ lastCall.scores = <<MaxScoreInput, MAX_SCORE + 1>>
    /\ Class("alice") = TopClass /\ Class("bob") = TopClass
    /\ TierQueryErr("alice") = "ok" /\ TierQueryErr("bob") = "ok"

\* C20: setTrustScore called by an authorised oracle for a non-null subject
\* with a valid proof succeeds whatever the value; the subject is then
\* scored, a value above 100 is stored as 0 and the subject is classified
\* LOW, a value in 0..100 is stored unchanged; every stored score lies in
\* 0..100.
C20_EncryptedRange ==
    /\ [](\A w \in Wallets : trustScores[w] \in 0..100)
    /\ [][now' = now /\ lastCall'.op = "setTrustScore" =>
            LET s == lastCall'.score
            IN
            \A w \in Wallets :
                /\ lastCall'.account = w
                /\ authorizedOracles[lastCall'.caller]
                /\ lastCall'.proofOk
                =>  /\ lastCall'.err = "ok"
                    /\ hasScore'[w]
                    /\ trustScores'[w] = IF s > 100 THEN 0 ELSE s
                    /\ s > 100 =>
                        /\ TierQueryErr(w)' = "ok"
                        /\ isLowTrust(w)' /\ getTrustTier(w)' = 0]_vars

\* A subject without a score has been given an out-of-range value: it is
\* scored and holds 0.
C20_Witness ==
    /\ lastCall.op = "setTrustScore" /\ lastCall.err = "ok"
    /\ lastCall.account = "bob" /\ lastCall.score = MaxScoreInput
    /\ hasScore["bob"] /\ trustScores["bob"] = 0
    /\ lastScoreUpdate["bob"] = now /\ now > T0
    /\ totalScoredAddresses = 2

(* ----------------------------- C21 .. C30 ------------------------------ *)

\* C21: isScoreExpired never fails and returns true exactly when the subject
\* has no score or the current time is more than 90 days after its last
\* update: false 89 days and exactly 90 days after the update, true 91 days
\* after it; a successful setter call stamps the subject with the time of
\* the call, from which the window is counted again.
C21_ExpiryWindow ==
    [][\A w \in Wallets :
        /\ now' = now /\ lastCall'.op = "isScoreExpired" /\ lastCall'.account = w =>
            LET age == now - lastScoreUpdate[w]
                day == 24 * 60 * 60
            IN
            /\ lastCall'.err = "ok"
            /\ lastCall'.ret = (~hasScore[w] \/ age > 90 * day)
            /\ hasScore[w] /\ age \in {89 * day, 90 * day} => lastCall'.ret = FALSE
            /\ hasScore[w] /\ age = 91 * day => lastCall'.ret = TRUE
        /\ SetBy(w) => lastScoreUpdate'[w] = now /\ ~isScoreExpired(w)']_vars

\* 160 days after deployment a score updated on the 80th day is reported
\* as not expired.
C21_Witness ==
    /\ lastCall.op = "isScoreExpired" /\ lastCall.err = "ok"
    /\ lastCall.ret = FALSE
    /\ now = T0 + 160 * 24 * 60 * 60
    /\ lastScoreUpdate[lastCall.account] = T0 + 80 * 24 * 60 * 60

TierQueries == {"isHighTrust", "isMediumTrust", "isLowTrust", "getTrustTier"}

\* C22: each tier query fails with AccountNotScored for a subject without a
\* live score, whatever the time, fails with ScoreExpired for a subject whose
\* score is older than 90 days, and succeeds otherwise; getTrustScore fails
\* with AccountNotScored for a subject without a score and otherwise returns
\* the stored score, expired or not.
C22_QueryFailures ==
    [][\A w \in Wallets :
        /\ now' = now /\ lastCall'.op \in TierQueries /\ lastCall'.account = w =>
            lastCall'.err =
                IF ~hasScore[w] THEN "AccountNotScored"
                ELSE IF now - lastScoreUpdate[w] > 7776000 THEN "ScoreExpired"
                ELSE "ok"
        /\ now' = now /\ lastCall'.op = "getTrustScore" /\ lastCall'.account = w =>
            IF ~hasScore[w] THEN lastCall'.err = "AccountNotScored"
            ELSE lastCall'.err = "ok" /\ lastCall'.ret = trustScores[w]]_vars

\* The raw score of a subject has been returned after its expiry.
C22_Witness ==
    /\ lastCall.op = "getTrustScore" /\ lastCall.err = "ok"
    /\ hasScore[lastCall.account]
    /\ now > lastScoreUpdate[lastCall.account] + SCORE_EXPIRY
    /\ lastCall.ret = MAX_SCORE

\* C23: a getTrustTier query on a subject with a live, non-expired score
\* succeeds and returns 2 exactly when isHighTrust is true, 1 exactly when
\* isMediumTrust is true and isHighTrust is false, 0 exactly when isLowTrust
\* is true; the result is one of 0, 1 and 2, so exactly one case holds.
C23_TierAgreement ==
    [][\A w \in Wallets :
        /\ now' = now /\ lastCall'.op = "getTrustTier" /\ lastCall'.account = w
        /\ hasScore[w] /\ now - lastScoreUpdate[w] <= 7776000
        =>  /\ lastCall'.err = "ok"
            /\ lastCall'.ret \in {0, 1, 2}
            /\ lastCall'.ret = 2 <=> isHighTrust(w)
            /\ lastCall'.ret = 1 <=> (isMediumTrust(w) /\ ~isHighTrust(w))
            /\ lastCall'.ret = 0 <=> isLowTrust(w)]_vars

\* A score of 74 has been classified 1 in the last second of its validity.
C23_Witness ==
    /\ lastCall.op = "getTrustTier" /\ lastCall.err = "ok"
    /\ lastCall.ret = 1
    /\ trustScores[lastCall.account] = 74
    /\ now = lastScoreUpdate[lastCall.account] + SCORE_EXPIRY

scoreVars == <<trustScores, hasScore, lastScoreUpdate, totalScoredAddresses>>

\* The step is a call by c, successful or not, of one of the four operations
\* that write trust records.
WriterCall(c) ==
    /\ now' = now
    /\ \/ lastCall'.op \in {"setTrustScore", "batchSetScores"} /\ lastCall'.caller = c
       \/ /\ lastCall'.op = "setTrustScorePlaintext"
          /\ \E w \in Wallets \cup {ZERO}, s \in RegistryScores :
                setTrustScorePlaintext(c, w, s)
       \/ /\ lastCall'.op = "revokeScore"
          /\ \E w \in Wallets : revokeScore(c, w)

\* C24: no oracle is authorised initially; a step changes a trust record
\* only if it is a successful call of a writer by a caller that is an
\* authorised oracle in the state of the call; a writer called by anyone else
\* fails with UnauthorizedOracle and changes no record; the oracle set
\* changes only by a setOracle call of the owner.
C24_OracleOnly ==
    /\ \A c \in Callers : ~authorizedOracles[c]
    /\ [][
          /\ scoreVars' # scoreVars =>
                /\ lastCall'.err = "ok"
                /\ \E c \in Callers : authorizedOracles[c] /\ WriterCall(c)
          /\ \A c \in Callers :
                ~authorizedOracles[c] /\ WriterCall(c) =>
                    lastCall'.err = "UnauthorizedOracle" /\ UNCHANGED scoreVars
          /\ authorizedOracles' # authorizedOracles =>
                \E o \in Callers, a \in BOOLEAN : setOracle(Owner, o, a)
       ]_vars

\* With a subject scored and the owner not an oracle, setOracle has taken
\* the authorisation away and the former oracle's next call is refused.
C24_Witness ==
    /\ lastCall.op = "setTrustScore" /\ lastCall.err = "UnauthorizedOracle"
    /\ lastCall.caller = Oracle
    /\ \A c \in Callers : ~authorizedOracles[c]
    /\ ScoredSet # {}

\* C25: a batchSetScores call by an authorised oracle fails with
\* BatchLengthMismatch when the arrays differ in length and with ZeroAddress
\* when a subject is null, and then no score, flag, timestamp or counter
\* changes; otherwise it succeeds, every listed subject holds the last score
\* listed for it, cut at 100, and the time of the call, every other subject
\* is untouched, and the counter grows by the number of listed subjects that
\* had no score; two empty arrays change nothing.
C25_BatchAtomic ==
    [][now' = now /\ lastCall'.op = "batchSetScores"
            /\ authorizedOracles[lastCall'.caller] =>
        LET accounts == lastCall'.accounts
            scores == lastCall'.scores
            listed == {accounts[i] : i \in DOMAIN accounts}
        IN
        IF Len(accounts) # Len(scores)
            THEN lastCall'.err = "BatchLengthMismatch" /\ UNCHANGED scoreVars
        ELSE IF ZERO \in listed
            THEN lastCall'.err = "ZeroAddress" /\ UNCHANGED scoreVars
        ELSE
            /\ lastCall'.err = "ok"
            /\ \A w \in Wallets \ listed :
                /\ trustScores'[w] = trustScores[w]
                /\ hasScore'[w] = hasScore[w]
                /\ lastScoreUpdate'[w] = lastScoreUpdate[w]
            /\ \A w \in listed :
                /\ hasScore'[w] /\ lastScoreUpdate'[w] = now
                /\ \E i \in DOMAIN accounts :
                    /\ accounts[i] = w
                    /\ \A j \in DOMAIN accounts : j > i => accounts[j] # w
                    /\ trustScores'[w] = IF scores[i] > 100 THEN 100 ELSE scores[i]
            /\ totalScoredAddresses' =
                    totalScoredAddresses + Cardinality(listed \ ScoredSet)
            /\ accounts = <<>> => UNCHANGED scoreVars]_vars

\* A batch with a null subject in second place has failed and the subject
\* in first place still has no score.
C25_Witness ==
    /\ lastCall.op = "batchSetScores" /\ lastCall.err = "ZeroAddress"
    /\ lastCall.accounts = <<"alice", ZERO>>
    /\ ~hasScore["alice"] /\ lastScoreUpdate["alice"] = 0
    /\ hasScore["bob"]

\* C26: a call of executePayroll or releasePayment that fails leaves the
\* payment records, nextPaymentId, every employee record, the balances,
\* totalPayrollsExecuted, the payroll lock and everything else as they were.
C26_FailureAtomic ==
    [][now' = now /\ lastCall'.op \in {"executePayroll", "releasePayment"}
            /\ lastCall'.err # "ok" =>
        /\ UNCHANGED <<pendingPayments, nextPaymentId, employees, balances,
                       totalPayrollsExecuted, payrollLock>>
        /\ UNCHANGED <<trustScoring, payToken, salaryAcl, employer, employeeList, totalMinted, paused, registryVars>>
        /\ ~payrollLock]_vars

\* A run has failed on the expired score of the second employee; the first,
\* active and unscored, has no record and no pay date.
C26_Witness ==
    /\ lastCall = Call("executePayroll", "ScoreExpired")
    /\ employeeList = <<"alice", "bob">>
    /\ employees["alice"].isActive /\ ~hasScore["alice"]
    /\ employees["alice"].lastPayDate = 0
    /\ nextPaymentId = 0 /\ Status(0) = "None"
    /\ totalPayrollsExecuted = 0 /\ ~payrollLock

\* A run has failed on the instant transfer to the second employee.
C26_WitnessLedger ==
    /\ lastCall = Call("executePayroll", "LedgerRejected")
    /\ employees["alice"].isActive /\ ~hasScore["alice"]
    /\ nextPaymentId = 0 /\ employees["alice"].lastPayDate = 0

\* A release has failed on the ledger and the record is still pending.
C26_WitnessRelease ==
    /\ lastCall = Call("releasePayment", "LedgerRejected")
    /\ \E id \in PaymentIds : Status(id) \in Pending

Running == lastCall.err = "running"

\* The step is a call of executePayroll from inside the running execution.
Reenters == Running /\ Running' /\ lastCall'.i = lastCall.i /\ lastCall' # lastCall

\* C27: the lock is held exactly while an execution of executePayroll is in
\* progress, so it is free after every run, failed or not; an execution
\* starts only with the lock free; a call made from inside a running
\* execution never gets in and changes nothing: it fails with PayrollLocked,
\* unless its caller is not the employer and the caller check, which comes
\* first, fails it with NotEmployer; a call made while no execution is in
\* progress is never refused for the lock.
C27_PayrollLock ==
    /\ [](payrollLock <=> Running)
    /\ [][
          /\ ~Running /\ Running' => ~payrollLock /\ lastCall'.i = 1
          /\ Reenters =>
                /\ lastCall'.nested =
                        IF lastCall'.nestedCaller = employer THEN "PayrollLocked"
                        ELSE "NotEmployer"
                /\ UNCHANGED <<coreVars, registryVars, ledgerVars>>
          /\ ~Running /\ ~Running' /\ now' = now /\ lastCall'.op = "executePayroll" =>
                lastCall'.err = "NotEmployer"
       ]_vars

\* With the first employee paid, the employer's call from inside the second
\* iteration has failed on the lock.
C27_Witness ==
    /\ Running /\ payrollLock
    /\ lastCall.i = 2 /\ lastCall.processed = 1
    /\ lastCall.nested = "PayrollLocked" /\ lastCall.nestedCaller = employer
    /\ nextPaymentId = 1 /\ employees["alice"].lastPayDate = now

\* A run has failed in its second iteration and the lock is free.
C27_WitnessFailed ==
    /\ lastCall = Call("executePayroll", "ScoreExpired")
    /\ ~payrollLock /\ nextPaymentId = 0

\* The step is a successful call that stores the salary for the wallet.
StoresSalary(c, w, sal) ==
    /\ lastCall'.err = "ok"
    /\ CASE lastCall'.op = "addEmployee" ->
                \E r \in Roles : addEmployee(c, w, sal, TRUE, r)
         [] lastCall'.op = "addEmployeePlaintext" ->
                \E r \in Roles : addEmployeePlaintext(c, w, sal, r)
         [] lastCall'.op = "updateSalary" -> updateSalary(c, w, sal, TRUE)
         [] lastCall'.op = "updateSalaryPlaintext" -> updateSalaryPlaintext(c, w, sal)
         [] OTHER -> FALSE

EmployerGated(c) ==
    CASE lastCall'.op = "addEmployee" ->
            \E w \in Wallets \cup {ZERO}, s \in Salaries, ok \in BOOLEAN, r \in Roles :
                addEmployee(c, w, s, ok, r)
      [] lastCall'.op = "addEmployeePlaintext" ->
            \E w \in Wallets \cup {ZERO}, s \in Salaries, r \in Roles :
                addEmployeePlaintext(c, w, s, r)
      [] lastCall'.op = "removeEmployee" -> \E w \in Wallets : removeEmployee(c, w)
      [] lastCall'.op = "updateSalary" ->
            \E w \in Wallets, s \in Salaries, ok \in BOOLEAN : updateSalary(c, w, s, ok)
      [] lastCall'.op = "updateSalaryPlaintext" ->
            \E w \in Wallets, s \in Salaries : updateSalaryPlaintext(c, w, s)
      [] lastCall'.op = "updateEmployeeRole" ->
            \E w \in Wallets, r \in Roles : updateEmployeeRole(c, w, r)
      [] lastCall'.op = "executePayroll" -> executePayroll(c)
      [] lastCall'.op = "cancelPayment" -> \E id \in PaymentIds : cancelPayment(c, id)
      [] OTHER -> FALSE

\* The step is a call by c of an operation behind onlyOwner, with the
\* address a.
OwnerGated(c, a) ==
    CASE lastCall'.op = "updateTrustScoring" -> updateTrustScoring(c, a)
      [] lastCall'.op = "updatePayToken" -> updatePayToken(c, a)
      [] lastCall'.op = "transferEmployer" -> transferEmployer(c, a)
      [] OTHER -> FALSE

\* C29: an operation behind onlyEmployer called by anybody but the current
\* employer, the owner included, fails with NotEmployer and changes nothing,
\* and called by the current employer, whoever was employer before, it never
\* fails with NotEmployer; updateTrustScoring, updatePayToken and
\* transferEmployer succeed exactly for the owner with an address that is
\* not null, fail with ZeroAddress for the owner with the null address, and
\* a failure changes nothing.
C29_CallerChecks ==
    [][\A c \in AccessCallers :
          /\ EmployerGated(c) =>
                IF c = employer
                    THEN lastCall'.err # "NotEmployer"
                    ELSE /\ lastCall'.err = "NotEmployer"
                         /\ UNCHANGED <<coreVars, registryVars, ledgerVars>>
          /\ \A a \in {ZERO, Owner, Employer0, Employer2, Registry, Token, Contract2} :
                OwnerGated(c, a) =>
                    /\ lastCall'.err = "ok" <=> c = Owner /\ a # ZERO
                    /\ c = Owner /\ a = ZERO => lastCall'.err = "ZeroAddress"
                    /\ lastCall'.err # "ok" =>
                            UNCHANGED <<coreVars, registryVars, ledgerVars>>
      ]_vars

\* After the owner handed the role to another account, that account has
\* added an employee.
C29_Witness ==
    /\ employer = Employer2
    /\ lastCall \in {Call("addEmployee", "ok"), Call("addEmployeePlaintext", "ok")}
    /\ employees["bob"].isActive /\ Employer2 \in salaryAcl["bob"]

\* After the hand-over a call behind onlyEmployer has been refused.
C29_WitnessRejected ==
    /\ employer = Employer2
    /\ lastCall.err = "NotEmployer"

\* The ids a call of getReleasablePayments has just returned.
Returned == {lastCall.ret[j] : j \in 1..Len(lastCall.ret)}

\* The array of ids a call has just returned is as C30 says.
ReleasableListed ==
    /\ \A j \in 1..(Len(lastCall.ret) - 1) : lastCall.ret[j] < lastCall.ret[j + 1]
    /\ Returned =
            {id \in PaymentIds :
                \/ pendingPayments[id].status = "Escrowed"
                \/ /\ pendingPayments[id].status = "Delayed"
                   /\ pendingPayments[id].releaseTime <= now}
    /\ \A id \in Returned :
            /\ pendingPayments[id].status \notin {"None", "Instant", "Released", "Completed"}
            /\ ~(pendingPayments[id].status = "Delayed"
                    /\ pendingPayments[id].releaseTime > now)
            /\ ReleaseCheckErr(employer, id) = "ok"

\* C30: getReleasablePayments returns, in ascending order and each once,
\* exactly the ids of the escrowed payments and of the delayed payments whose
\* release time is not later than the current time; no returned id belongs
\* to an instant, released, completed or not yet matured delayed record, and
\* each passes the status, time and caller checks of releasePayment called
\* by the employer.
C30_Releasable ==
    [][CallStep("getReleasablePayments") => ReleasableListed']_vars

\* Of the three records of a medium-tier employee the call has returned the
\* delayed one, at its very release time, and the escrowed one, in order,
\* and has left out the instant one.
C30_Witness ==
    /\ lastCall.op = "getReleasablePayments"
    /\ lastCall.ret = <<1, 2>>
    /\ pendingPayments[0].status = "Instant"
    /\ pendingPayments[1].status = "Delayed" /\ pendingPayments[1].releaseTime = now
    /\ pendingPayments[2].status = "Escrowed"

\* The call has left out a delayed payment that has not matured.
C30_WitnessUnmatured ==
    /\ lastCall.op = "getReleasablePayments"
    /\ lastCall.ret = <<2>>
    /\ pendingPayments[1].status = "Delayed" /\ pendingPayments[1].releaseTime > now

\* The call has left out a released and a completed payment.
C30_WitnessSettled ==
    /\ lastCall.op = "getReleasablePayments"
    /\ lastCall.ret = <<>>
    /\ \E i, j \in PaymentIds :
            /\ pendingPayments[i].status = "Released"
            /\ pendingPayments[j].status = "Completed"

(* ------------------------------ C31 .. C38 ----------------------------- *)

RECURSIVE PaidFrom(_, _)
\* Sum of the amounts of the wallet's Instant and Released records with an
\* id from i on.
PaidFrom(w, i) ==
    IF i > MaxPayments THEN 0
    ELSE (IF /\ pendingPayments[i].employee = w
             /\ pendingPayments[i].status \in {"Instant", "Released"}
            THEN pendingPayments[i].encryptedAmount ELSE 0)
         + PaidFrom(w, i + 1)

C31_WitnessInstant ==
    /\ pendingPayments[0].status = "Instant"
    /\ pendingPayments[0].encryptedAmount = 1
    /\ balances["alice"] = 1 /\ balances[Core] = MaxSalary - 1


RECURSIVE InstantSum(_, _, _, _)
\* Sum of the amounts of the wallet's Instant records of pp with ids i..n-1.
InstantSum(pp, w, i, n) ==
    IF i >= n THEN 0
    ELSE (IF pp[i].employee = w /\ pp[i].status = "Instant"
            THEN pp[i].encryptedAmount ELSE 0)
         + InstantSum(pp, w, i + 1, n)

\* The Instant amounts of the records the step has created for the wallet.
NewInstant(w) == InstantSum(pendingPayments', w, nextPaymentId, nextPaymentId')

\* C32: executePayroll moves from the engine to each employee the amounts of
\* the Instant records it creates for that employee and nothing else, so the
\* Delayed and Escrowed records it creates move nothing; a successful
\* releasePayment moves the recorded amount from the engine to the record's
\* employee; every other call, cancelPayment, employee management and
\* admin calls included, and every failing call leaves all balances alone;
\* and a payroll run that pays unscored employees only is never refused by
\* the ledger, whatever the engine holds.
C32_Debits ==
    [][/\ lastCall'.op = "executePayroll" =>
            /\ \A w \in Wallets : balances'[w] = balances[w] + NewInstant(w)
            /\ balances'[Core] = balances[Core] - NewInstant("alice") - NewInstant("bob")
       /\ lastCall'.op = "releasePayment" /\ lastCall'.err = "ok" =>
            \E id \in PaymentIds :
                /\ pendingPayments[id].status \in {"Delayed", "Escrowed"}
                /\ pendingPayments'[id].status = "Released"
                /\ balances' = confidentialTransfer(balances, Core,
                                    pendingPayments[id].employee,
                                    pendingPayments[id].encryptedAmount)
       /\ lastCall'.op \notin {"executePayroll", "releasePayment"}
                \/ lastCall'.err # "ok" => balances' = balances
       /\ lastCall'.op = "executePayroll" /\ lastCall'.err = "LedgerRejected" =>
            \E w \in Wallets : employees[w].isActive /\ hasScore[w]
      ]_vars

\* A run has paid alice, in the high tier, her salary at once, and has
\* written bob's escrow record for more than the engine is left with.
C32_Witness ==
    /\ lastCall = Call("executePayroll", "ok")
    /\ pendingPayments[0].status = "Instant" /\ pendingPayments[0].encryptedAmount = 1
    /\ pendingPayments[3].status = "Escrowed"
    /\ pendingPayments[3].encryptedAmount = MaxSalary
    /\ balances["alice"] = 1 /\ balances["bob"] = 0
    /\ balances[Core] = MaxSalary - 1

\* An unfunded engine has written an escrow record, and the employer's
\* cancellation of it has moved nothing.
C32_WitnessCancel ==
    /\ lastCall = Call("cancelPayment", "ok")
    /\ pendingPayments[0].status = "Completed" /\ pendingPayments[0].encryptedAmount > 0
    /\ \A a \in Wallets \cup {Core} : balances[a] = 0

\* An escrowed amount has been released to its employee.
C32_WitnessRelease ==
    /\ lastCall = Call("releasePayment", "ok")
    /\ pendingPayments[0].status = "Released"
    /\ balances["alice"] = 1 /\ balances[Core] = MaxSalary - 1


InLedger == lastCall.err = "inLedger"

\* The payment the ledger is being called for is in the engine's storage as
\* the call at hand leaves it: the released record is Released, the instant
\* payment is the newest record.
PaymentRecorded ==
    IF lastCall.op = "releasePayment"
        THEN pendingPayments[lastCall.outer.id].status = "Released"
        ELSE /\ nextPaymentId > 0
             /\ LET p == pendingPayments[nextPaymentId - 1] IN
                    /\ p.status = "Instant"
                    /\ p.employee = lastCall.to
                    /\ p.encryptedAmount = lastCall.amount
                    /\ p.createdAt = now

\* The step is a call of releasePayment from inside the ledger call of a
\* releasePayment, for the id being released.
ReentersSameId ==
    /\ InLedger /\ InLedger'
    /\ lastCall.op = "releasePayment"
    /\ lastCall'.nested # lastCall.nested
    /\ lastCall'.nested.id = lastCall.outer.id

\* C33 as stated: whenever the engine is inside a call of the ledger, from
\* releasePayment or from the instant payment of executePayroll, the payment
\* is already recorded, and a releasePayment re-entered for the id being
\* released fails with PaymentNotReleasable.
C33_AsStated ==
    /\ [](InLedger => PaymentRecorded)
    /\ [][ReentersSameId => lastCall'.nested.err = "PaymentNotReleasable"]_vars

\* What holds of C33: inside the ledger call of releasePayment the record is
\* already Released and a re-entered release of it is refused, and inside
\* the ledger call of the instant payment no record of the payment exists
\* yet: the id it will get is still free.
C33_ReleaseRecorded ==
    /\ [](InLedger /\ lastCall.op = "releasePayment" => PaymentRecorded)
    /\ [](InLedger /\ lastCall.op = "executePayroll" =>
            /\ pendingPayments[nextPaymentId].status = "None"
            /\ nextPaymentId = lastCall.outer.saved.npid
                    + 3 * Cardinality({j \in 1..(lastCall.outer.i - 1) :
                            employees[employeeList[j]].isActive
                                /\ hasScore[employeeList[j]]})
                    + Cardinality({j \in 1..(lastCall.outer.i - 1) :
                            employees[employeeList[j]].isActive
                                /\ ~hasScore[employeeList[j]]}))
    /\ [][ReentersSameId => lastCall'.nested.err = "PaymentNotReleasable"]_vars

\* The engine is inside the ledger call that pays alice, in the high tier,
\* her salary at once, and holds no record of the payment.
C33_Witness ==
    /\ InLedger /\ lastCall.op = "executePayroll"
    /\ lastCall.to = "alice" /\ lastCall.amount = 1
    /\ nextPaymentId = 0 /\ pendingPayments[0].status = "None"
    /\ employees["alice"].lastPayDate = 0

\* A release re-entered for the id being released has been refused.
C33_WitnessRelease ==
    /\ InLedger /\ lastCall.op = "releasePayment"
    /\ lastCall.nested = [id |-> lastCall.outer.id, err |-> "PaymentNotReleasable"]
    /\ pendingPayments[lastCall.outer.id].status = "Released"
    /\ balances[lastCall.to] = 0 /\ lastCall.amount > 0


\* The step is the loop iteration of executePayroll that processes the
\* scored wallet w.
IteratesScored(w) ==
    /\ Running /\ Running'
    /\ lastCall'.i = lastCall.i + 1
    /\ employeeList[lastCall.i] = w
    /\ employees[w].isActive /\ hasScore[w]

\* C34: in every state the ids below nextPaymentId, and no others, denote a
\* record (status not None), each record carries its id, and createdAt never
\* decreases along the ids; and the iteration that processes a scored
\* employee writes at the next three ids, in this order, the employee's
\* Instant, Delayed and Escrowed record, all created now.
C34_DenseIds ==
    /\ [](\A id \in PaymentIds :
            /\ id < nextPaymentId <=> pendingPayments[id].status # "None"
            /\ id < nextPaymentId => pendingPayments[id].id = id)
    /\ [](\A i, j \in PaymentIds :
            i < j /\ j < nextPaymentId =>
                pendingPayments[i].createdAt <= pendingPayments[j].createdAt)
    /\ [][\A w \in Wallets :
            IteratesScored(w) =>
                /\ nextPaymentId' = nextPaymentId + 3
                /\ pendingPayments'[nextPaymentId].status = "Instant"
                /\ pendingPayments'[nextPaymentId + 1].status = "Delayed"
                /\ pendingPayments'[nextPaymentId + 2].status = "Escrowed"
                /\ \A k \in 0..2 :
                        /\ pendingPayments'[nextPaymentId + k].employee = w
                        /\ pendingPayments'[nextPaymentId + k].id = nextPaymentId + k
                        /\ pendingPayments'[nextPaymentId + k].createdAt = now
      ]_vars

\* A run has written the escrow record of unscored alice and then the three
\* records of bob, in the high tier.
C34_Witness ==
    /\ nextPaymentId = 4
    /\ pendingPayments[0].employee = "alice" /\ pendingPayments[0].status = "Escrowed"
    /\ pendingPayments[1].status = "Instant"
    /\ pendingPayments[2].status = "Delayed"
    /\ pendingPayments[3].status = "Escrowed"
    /\ \A k \in 1..3 : pendingPayments[k].employee = "bob"
    /\ pendingPayments[1].encryptedAmount = MaxSalary

\* Two runs at different times have written four records.
C34_WitnessTwoRuns ==
    /\ nextPaymentId = 4 /\ totalPayrollsExecuted = 2
    /\ pendingPayments[1].createdAt < pendingPayments[2].createdAt
    /\ pendingPayments[4].status = "None"


\* Position of the wallet on the employee list.
ListPos(w) == CHOOSE i \in 1..Len(employeeList) : employeeList[i] = w

\* The wallets a run would process whose live score has expired.
ExpiredOnes ==
    {w \in Wallets : /\ \E i \in 1..Len(employeeList) : employeeList[i] = w
                     /\ employees[w].isActive
                     /\ hasScore[w] /\ isExpired(w)}

\* A scored employee with an unexpired score is processed ahead of every
\* employee whose score has expired.
LiveScoreAhead ==
    \E v \in Wallets :
        /\ \E i \in 1..Len(employeeList) : employeeList[i] = v
        /\ employees[v].isActive /\ hasScore[v] /\ ~isExpired(v)
        /\ \A w \in ExpiredOnes : ListPos(v) < ListPos(w)

\* The step is a call of executePayroll by the employer.
PayrollCall == now' = now /\ lastCall'.op = "executePayroll" /\ lastCall' # lastCall

\* The records the step has created for the wallet.
NewRecords(w) ==
    {id \in PaymentIds : /\ nextPaymentId <= id /\ id < nextPaymentId'
                         /\ pendingPayments'[id].employee = w}

\* The run has processed every unscored employee as such: one record, in
\* escrow, of the salary.
UnscoredEscrowed ==
    \A w \in Wallets :
        (/\ \E i \in 1..Len(employeeList) : employeeList[i] = w
         /\ employees[w].isActive /\ ~hasScore[w]) =>
            /\ Cardinality(NewRecords(w)) = 1
            /\ \A id \in NewRecords(w) :
                    /\ pendingPayments'[id].status = "Escrowed"
                    /\ pendingPayments'[id].encryptedAmount = employees[w].encryptedSalary
            /\ employees'[w].lastPayDate = now

\* C35 as stated: a run over an employee with an expired score fails with
\* ScoreExpired and changes nothing, and a successful run gives each
\* unscored employee, a revoked one included, the single escrow record.
C35_AsStated ==
    [][PayrollCall =>
        /\ ExpiredOnes # {} =>
                /\ lastCall'.err = "ScoreExpired"
                /\ UNCHANGED <<pendingPayments, nextPaymentId, employees, balances>>
        /\ lastCall'.err = "ok" => UnscoredEscrowed
      ]_vars

\* C35, amended: a run over an employee with an expired score fails and
\* changes nothing; it fails with ScoreExpired unless a scored employee with
\* an unexpired score comes first, whose instant transfer the ledger can
\* reject before the expired score is looked at; a successful run gives each
\* unscored employee, a revoked one included, the single escrow record.
C35_ExpiredFails ==
    [][PayrollCall =>
        /\ ExpiredOnes # {} =>
                /\ lastCall'.err \in {"ScoreExpired", "LedgerRejected"}
                /\ lastCall'.err = "LedgerRejected" => LiveScoreAhead
                /\ UNCHANGED <<pendingPayments, nextPaymentId, employees, balances>>
        /\ lastCall'.err = "ok" => UnscoredEscrowed
      ]_vars

\* Alice was scored after bob's score had expired and the token is paused:
\* the run has failed on the transfer to alice.
C35_Witness ==
    /\ lastCall = Call("executePayroll", "LedgerRejected")
    /\ hasScore["alice"] /\ ~isExpired("alice")
    /\ hasScore["bob"] /\ isExpired("bob")
    /\ employees["alice"].isActive /\ employees["bob"].isActive
    /\ paused
    /\ nextPaymentId = 0 /\ employees["alice"].lastPayDate = 0

\* The run has failed on bob's expired score and unscored alice, ahead of
\* him, has got nothing.
C35_WitnessExpired ==
    /\ lastCall = Call("executePayroll", "ScoreExpired")
    /\ ~hasScore["alice"] /\ hasScore["bob"] /\ isExpired("bob")
    /\ employees["alice"].isActive /\ employees["bob"].isActive
    /\ now > T0 + SCORE_EXPIRY
    /\ nextPaymentId = 0 /\ employees["alice"].lastPayDate = 0
    /\ balances["alice"] = 0

\* Bob's score was revoked after the expiry window: the run has given him
\* the single escrow record.
C35_WitnessRevoked ==
    /\ lastCall = Call("executePayroll", "ok")
    /\ ~hasScore["bob"] /\ lastScoreUpdate["bob"] = 0
    /\ now > T0 + SCORE_EXPIRY
    /\ nextPaymentId = 2
    /\ pendingPayments[1].employee = "bob" /\ pendingPayments[1].status = "Escrowed"
    /\ pendingPayments[1].encryptedAmount = MaxSalary

(* ------------------------------- C36 ---------------------------------- *)

\* The fields of a record that are written once, when it is created.
Snapshot(p) == <<p.id, p.employee, p.encryptedAmount, p.createdAt, p.releaseTime, p.milestone>>

\* The operations that C36 names: they are neither releasePayment nor
\* cancelPayment.
RosterOps ==
    {"updateSalary", "updateSalaryPlaintext", "updateEmployeeRole", "removeEmployee",
     "setTrustScore", "setTrustScorePlaintext", "revokeScore", "executePayroll"}

\* The step is a successful releasePayment(i) of a record whose employee is
\* no longer active.
ReleasesRemoved(i) ==
    /\ CallStep("releasePayment")
    /\ pendingPayments[i].status \in {"Delayed", "Escrowed"}
    /\ pendingPayments'[i].status = "Released"
    /\ ~employees[pendingPayments[i].employee].isActive

\* C36: an existing payment record is a snapshot.  No step changes the
\* employee, amount, createdAt, releaseTime or milestone of a record that
\* exists, and its status changes only in a releasePayment or cancelPayment
\* call, so never in updateSalary, updateSalaryPlaintext, updateEmployeeRole,
\* removeEmployee, a score change or a later payroll run.  A Delayed or
\* Escrowed record of an employee removed afterwards still passes the checks
\* of releasePayment (the employer calling, the delay over), and its release
\* pays the recorded amount to the recorded employee.
C36_Snapshot ==
    /\ [](\A i \in PaymentIds :
            LET p == pendingPayments[i] IN
            (/\ i < nextPaymentId
             /\ p.status \in {"Delayed", "Escrowed"}
             /\ ~employees[p.employee].isActive
             /\ (p.status = "Delayed" => now >= p.releaseTime))
                => ReleaseCheckErr(employer, i) = "ok")
    /\ [][\A i \in PaymentIds :
            i < nextPaymentId =>
                /\ Snapshot(pendingPayments'[i]) = Snapshot(pendingPayments[i])
                /\ (pendingPayments'[i].status # pendingPayments[i].status
                        => /\ now' = now
                           /\ lastCall'.op \in {"releasePayment", "cancelPayment"}
                           /\ lastCall'.op \notin RosterOps)
                /\ (ReleasesRemoved(i) =>
                        LET p == pendingPayments[i] IN
                        /\ balances'[p.employee] = balances[p.employee] + p.encryptedAmount
                        /\ balances'[Core] = balances[Core] - p.encryptedAmount)]_vars

\* A delayed payment of a removed employee has just been released: she was
\* paid the amount of the record.
C36_Witness ==
    \E i \in PaymentIds :
        LET p == pendingPayments[i] IN
        /\ lastCall = Call("releasePayment", "ok")
        /\ p.status = "Released"
        /\ p.releaseTime > p.createdAt
        /\ p.encryptedAmount > 0
        /\ ~employees[p.employee].isActive
        /\ balances[p.employee] >= p.encryptedAmount

\* A second payroll run has been made while a record of the first is pending.
C36_WitnessLaterRun ==
    /\ lastCall.op = "executePayroll" /\ lastCall.err = "ok"
    /\ totalPayrollsExecuted = 2
    /\ \E i, j \in PaymentIds :
        /\ i < j /\ j < nextPaymentId
        /\ pendingPayments[i].status = "Escrowed"
        /\ pendingPayments[i].createdAt < pendingPayments[j].createdAt

\* A salary was changed while a record holding the old salary is pending.
C36_WitnessSalary ==
    /\ lastCall.op \in {"updateSalary", "updateSalaryPlaintext"} /\ lastCall.err = "ok"
    /\ \E i \in PaymentIds :
        LET p == pendingPayments[i] IN
        /\ p.status = "Escrowed"
        /\ p.encryptedAmount = SetupSalary[p.employee]
        /\ employees[p.employee].encryptedSalary # p.encryptedAmount

\* A score was revoked while records of that employee are pending.
C36_WitnessScore ==
    /\ lastCall.op = "revokeScore" /\ lastCall.err = "ok"
    /\ \E i \in PaymentIds :
        /\ pendingPayments[i].status = "Delayed"
        /\ ~hasScore[pendingPayments[i].employee]

(* ------------------------------- C37 ---------------------------------- *)

\* Record i is Delayed and its release time has passed.
DelayedMatured(i) ==
    /\ pendingPayments[i].status = "Delayed"
    /\ now >= pendingPayments[i].releaseTime

\* Record i has left the pending states for good.
Settled(i) == pendingPayments[i].status \in {"Released", "Completed"}

\* The ledger would accept the transfer of record i, for as long as the
\* record is pending.
AcceptsWhilePending(i) ==
    Settled(i) \/ TransferAccepted(balances, Core, pendingPayments[i].encryptedAmount)

C37_WitnessRejected ==
    \E i \in PaymentIds :
        /\ DelayedMatured(i)
        /\ ~AcceptsWhilePending(i)
        /\ lastCall = Call("releasePayment", "LedgerRejected")

(* ------------------------------- C38 ---------------------------------- *)

\* The step is a successful transferEmployer call.
Transfers == lastCall' = Call("transferEmployer", "ok")

\* The step is a successful call that stores a salary ciphertext.
WritesSalary ==
    /\ lastCall'.err = "ok"
    /\ lastCall'.op \in {"addEmployee", "addEmployeePlaintext",
                         "updateSalary", "updateSalaryPlaintext"}

\* The wallets that have a stored salary ciphertext.
Salaried == {w \in Wallets : salaryAcl[w] # {}}

C38_WitnessBack ==
    /\ lastCall = Call("transferEmployer", "ok")
    /\ calls = 2
    /\ employer = Employer0
    /\ Employer0 \in salaryAcl["alice"]
    /\ Employer2 \notin salaryAcl["alice"]

====
